---- MODULE Spec2Model ----
(***************************************************************************)
(* Model of the telex-ai-agent intent-dispatch pipeline:                   *)
(*   FreelanceAgent.process_messages / _handle_intent and its handlers     *)
(*   (src/src/services/freelance_agent.py) and AIService.classify_intent   *)
(*   (src/src/services/ai.py).                                             *)
(*                                                                         *)
(* Text.  A Python str is a sequence of pieces.  Data that the code        *)
(* inspects character by character (skill names, utterances) is written    *)
(* one character per piece; a literal of the source that is only ever      *)
(* concatenated is one piece.  NoneVal stands for Python's None and Absent *)
(* for a key that a mapping does not have; neither is a str.               *)
(*                                                                         *)
(* Five parts share the module, each with its own variables and its own    *)
(* specification: the agent (Spec), AIService._cached_generate with its    *)
(* cache and rate limiter (SpecAI, SpecLimiter, and SpecCache with         *)
(* clear_cache and get_stats; src/src/services/ai.py), the HTTP endpoint   *)
(* a2a_endpoint with process_and_notify (SpecEndpoint, and                 *)
(* SpecEndpointLive with a fair event loop; src/src/main.py), the          *)
(* application lifespan with its scraping tasks (SpecLifespan), and        *)
(* health_check over get_db_context (SpecHealth; src/src/db/session.py).   *)
(***************************************************************************)
EXTENDS Integers, Sequences, FiniteSets, TLC

\* ---------------------------------------------------------------- bounds
MaxMsgs == 2
MaxCalls == 1
MaxAICalls == 12
MaxCachedCalls == 2
MaxCacheCalls == 3
MaxRequests == 2
MaxScrapes == 2
MaxHealthChecks == 3
MaxJobs == 1

\* ------------------------------------------------------- Python strings
NoneVal == <<"<None>">>
Absent == <<"<absent>">>

UpperChars == <<"A","B","C","D","E","F","G","H","I","J","K","L","M",
                "N","O","P","Q","R","S","T","U","V","W","X","Y","Z">>
LowerChars == <<"a","b","c","d","e","f","g","h","i","j","k","l","m",
                "n","o","p","q","r","s","t","u","v","w","x","y","z">>

IsSpace(c) == c \in {" ", "\n", "\t"}

LowerChar(c) ==
    IF \E i \in 1..26 : UpperChars[i] = c
    THEN LowerChars[CHOOSE i \in 1..26 : UpperChars[i] = c] ELSE c
UpperChar(c) ==
    IF \E i \in 1..26 : LowerChars[i] = c
    THEN UpperChars[CHOOSE i \in 1..26 : LowerChars[i] = c] ELSE c

\* the text taken as it was sent, upper case kept
Lower_kept(s) == s

\* str.lower()
Lower(s) == [i \in 1..Len(s) |-> LowerChar(s[i])]

\* str.title(): a cased character is upper-cased after an uncased one and
\* lower-cased after a cased one
Title(s) ==
    [i \in 1..Len(s) |->
        IF i = 1 \/ ~(\E k \in 1..26 : s[i-1] \in {UpperChars[k], LowerChars[k]})
        THEN UpperChar(s[i]) ELSE LowerChar(s[i])]

\* str.strip(): from the first to the last character that is not whitespace
Strip(s) ==
    LET kept == {i \in 1..Len(s) : ~IsSpace(s[i])}
    IN  IF kept = {} THEN <<>>
        ELSE SubSeq(s, CHOOSE i \in kept : \A j \in kept : i <= j,
                       CHOOSE i \in kept : \A j \in kept : i >= j)

\* old in s
Contains(old, s) ==
    \E i \in 0..(Len(s) - Len(old)) : SubSeq(s, i + 1, i + Len(old)) = old

\* str.replace(old, new): leftmost, non-overlapping occurrences
RECURSIVE Replace(_, _, _)
Replace(s, old, new) ==
    IF s = <<>> THEN <<>>
    ELSE IF Len(old) <= Len(s) /\ SubSeq(s, 1, Len(old)) = old
         THEN new \o Replace(SubSeq(s, Len(old) + 1, Len(s)), old, new)
         ELSE <<Head(s)>> \o Replace(Tail(s), old, new)

\* str.split(): the maximal runs of non-whitespace characters
RECURSIVE SplitFrom(_, _, _)
SplitFrom(s, word, acc) ==
    IF s = <<>> THEN (IF word = <<>> THEN acc ELSE Append(acc, word))
    ELSE IF IsSpace(Head(s))
         THEN SplitFrom(Tail(s), <<>>, IF word = <<>> THEN acc ELSE Append(acc, word))
         ELSE SplitFrom(Tail(s), Append(word, Head(s)), acc)

Split(s) == SplitFrom(s, <<>>, <<>>)

\* sep.join(words)
RECURSIVE Join(_, _)
Join(sep, words) ==
    IF words = <<>> THEN <<>>
    ELSE IF Len(words) = 1 THEN words[1]
    ELSE words[1] \o sep \o Join(sep, Tail(words))

\* s[:n]
Slice(s, n) == SubSeq(s, 1, IF Len(s) < n THEN Len(s) ELSE n)



\* ------------------------------------------------------- string literals
S_compare == <<"c","o","m","p","a","r","e">>
S_vs == <<"v","s">>
S_learn == <<"l","e","a","r","n">>

\* skill names as a classifier may return them
S_Python == <<"P","y","t","h","o","n">>
S_Go == <<"G","o">>
S_Rust == <<"R","u","s","t">>
\* a target skill of 55 characters, longer than the slice of _get_learning_path
S_LongSkill ==
    <<"a","d","v","a","n","c","e","d"," ","d","i","s","t","r","i","b","u","t",
      "e","d"," ","s","y","s","t","e","m","s"," ","d","e","s","i","g","n"," ",
      "f","o","r"," ","c","l","o","u","d"," ","p","l","a","t","f","o","r","m","s">>

\* ------------------------------------------------------------- messages
TextPart(t) == [kind |-> "text", text |-> t, data |-> NoneVal]
DataPart(d) == [kind |-> "data", text |-> NoneVal, data |-> d]

\* the messages a caller can send: a data part before two text parts, a
\* message without any text part, and a text part that carries no text
MsgText ==
    [role |-> "user", messageId |-> "m-text", taskId |-> NoneVal,
     parts |-> <<DataPart(<<"payload">>),
                 TextPart(<<" ","F","i","n","d"," ","G","o"," ">>),
                 TextPart(<<"x">>)>>]
MsgData ==
    [role |-> "user", messageId |-> "m-data", taskId |-> NoneVal,
     parts |-> <<DataPart(<<"payload">>)>>]
MsgNoneText ==
    [role |-> "user", messageId |-> "m-none", taskId |-> NoneVal,
     parts |-> <<TextPart(NoneVal)>>]

MsgPool == {MsgText, MsgData, MsgNoneText}
MessageLists == UNION {[1..k -> MsgPool] : k \in 0..MaxMsgs}

\* identifiers: <<kind, n>>; uuid4() returns the next fresh <<"uuid", n>>
NoId == <<"none", 0>>
Uuid(n) == <<"uuid", n>>

\* ------------------------------------------------------ classifier data
EntityKeys == {"skill1", "skill2", "target_skill", "job_query"}
NoEntities == [k \in EntityKeys |-> Absent]

DispatchedIntents ==
    {"get_trending_skills", "get_trending_roles", "search_jobs", "get_statistics",
     "run_analysis", "scrape_jobs", "get_latest_analysis", "compare_skills",
     "get_learning_path", "answer_question"}
\* the intent values of a classifier result: the dispatched ones, get_help,
\* a string outside the prompt's list, and no intent key at all
IntentValues == DispatchedIntents \cup {"get_help", "tell_joke", "<absent>"}

\* a parsed JSON value; for an object, its "intent" and its "entities"
\* (ekind: what the value under "entities" is)
JsonObj(i, ek, em) == [t |-> "obj", intent |-> i, ekind |-> ek, emap |-> em]
JsonOther(t) == [t |-> t, intent |-> "<absent>", ekind |-> "absent", emap |-> NoEntities]

SkillValues ==
    {S_Python, S_Go, S_Rust, <<"R","e","a","c","t"," ","N","a","t","i","v","e">>,
     <<>>, Absent}
TargetValues ==
    {S_Rust, S_Go, S_LongSkill,
     <<"m","a","c","h","i","n","e"," ","l","e","a","r","n","i","n","g">>,
     <<>>, NoneVal, Absent}

JsonValues ==
    {JsonObj(i, "dict", NoEntities) : i \in IntentValues}
    \cup {JsonObj("compare_skills", "dict",
                  [NoEntities EXCEPT !["skill1"] = a, !["skill2"] = b]) :
            a \in SkillValues, b \in SkillValues}
    \cup {JsonObj("get_learning_path", "dict",
                  [NoEntities EXCEPT !["target_skill"] = a]) : a \in TargetValues}
    \cup {JsonObj("search_jobs", "dict",
                  [NoEntities EXCEPT !["job_query"] = a]) : a \in {S_Python}}
    \cup {JsonObj(i, ek, NoEntities) :
            i \in {"compare_skills", "get_learning_path", "search_jobs", "get_help"},
            ek \in {"null", "list", "absent"}}
    \cup {JsonOther(t) : t \in {"list", "str", "null"}}

\* the text of a model response: a sequence of tokens, each a code fence
\* (three backquotes, with or without the word json), a stretch of prose, or
\* the serialisation of a JSON value
Tok(k, j) == [tok |-> k, json |-> j]
ResponseTexts ==
    LET fence_json == Tok("fence_json", JsonOther("null"))
        fence == Tok("fence", JsonOther("null"))
        prose == Tok("prose", JsonOther("null"))
        object == Tok("json", JsonObj("get_statistics", "dict", NoEntities))
    IN  {<<Tok("json", j)>> : j \in JsonValues}
        \cup {<<fence_json, object, fence>>,
              <<fence, object, fence>>,
              <<prose, object>>,
              <<prose>>,
              <<>>}

\* what one text-generation call can do: raise, or answer with a response
\* whose .text is None or a token sequence
GenRaise == [raised |-> TRUE, hasText |-> FALSE, text |-> <<>>]
GenText(t) == [raised |-> FALSE, hasText |-> TRUE, text |-> t]
ClassifyOutcomes ==
    {GenRaise, [raised |-> FALSE, hasText |-> FALSE, text |-> <<>>]}
    \cup {GenText(t) : t \in ResponseTexts}


\* ------------------------------------------- AIService.classify_intent
\* result.replace(<json fence>, "").replace(<fence>, "")
StripFences(toks) == SelectSeq(toks, LAMBDA k : k.tok \notin {"fence_json", "fence"})

\* json.loads: succeeds when the text is the serialisation of one JSON value
JsonLoads(toks) ==
    IF Len(toks) = 1 /\ toks[1].tok = "json"
    THEN [ok |-> TRUE, value |-> toks[1].json]
    ELSE [ok |-> FALSE, value |-> JsonOther("null")]

HelpFallback == JsonObj("get_help", "dict", NoEntities)

\* classify_intent without the parsed.get calls of its log line: a JSON value
\* that is not an object is returned as it is
classify_intent_unchecked(outcome) ==
    IF outcome.raised THEN HelpFallback
    ELSE IF ~outcome.hasText THEN HelpFallback
    ELSE LET loaded == JsonLoads(StripFences(outcome.text))
         IN  IF ~loaded.ok THEN HelpFallback ELSE loaded.value

\* the dict that classify_intent returns for one outcome of _cached_generate;
\* every exception inside the try block ends in the except clause
classify_intent(outcome) ==
    IF outcome.raised THEN HelpFallback
    ELSE IF ~outcome.hasText THEN HelpFallback
    ELSE LET loaded == JsonLoads(StripFences(outcome.text))
         IN  IF ~loaded.ok THEN HelpFallback
             ELSE IF loaded.value.t # "obj" THEN HelpFallback
             ELSE loaded.value

\* ------------------------------------------------- collaborators' data
\* exceptions that a collaborator (store, analyzer, scraper) can raise
ExcMsgs == {<<"database is locked">>, <<"feed timeout">>}

\* one use of get_db_context: the body's queries succeed and the commit
\* succeeds, or a query raises, or the commit on exit raises
DbOutcomes ==
    {[fail |-> "none", msg |-> <<>>]}
    \cup {[fail |-> f, msg |-> m] : f \in {"query", "commit"}, m \in ExcMsgs}

\* text that a generation call answers with
TextGenOutcomes == {GenRaise, GenText(<<"<generated text>">>)}

SkillRow(n, c) == [name |-> n, total_mentions |-> c]
JobRow(i, pos, comp, tags, day, age) ==
    [id |-> i, position |-> pos, company |-> comp, location |-> <<"Remote">>,
     tags |-> tags, url |-> <<>>, date_posted |-> day, age_hours |-> age]
Trend(n, c, g) == [skill_name |-> n, current_mentions |-> c, growth_percentage |-> g]
Role(n, c, sk) == [role_name |-> n, job_count |-> c, top_skills |-> sk]

S_python == Lower(S_Python)
S_react == <<"r","e","a","c","t">>

StoreSkills ==
    <<SkillRow(S_python, 3), SkillRow(S_react, 2), SkillRow(<<"g","o","l","a","n","g">>, 1),
      SkillRow(<<"s","q","l">>, 1), SkillRow(<<"a","w","s">>, 1),
      SkillRow(<<"d","o","c","k","e","r">>, 1)>>
JobOne == JobRow(1, <<"Python Developer">>, <<"Acme">>, <<S_python, S_react>>, <<"2025-01-02">>, 2)
JobTwo == JobRow(2, <<"Go Engineer">>, <<"Initech">>, <<<<"g","o","l","a","n","g">>>>, <<"2024-12-29">>, 100)
StoredJobs ==
    <<JobOne,
      JobRow(3, <<"Data Analyst">>, <<"Globex">>, <<>>, <<"2024-12-30">>, 80),
      JobRow(4, <<"Frontend Developer">>, <<"Hooli">>, <<S_react>>, <<"2024-12-20">>, 300)>>

TrendLists ==
    {<<>>, <<Trend(S_python, 3, <<"New">>), Trend(S_react, 2, <<"New">>)>>,
     [i \in 1..11 |-> Trend(<<LowerChars[i], "s">>, 12 - i, <<"+", ToString(i), "0%">>)]}
RoleLists ==
    {<<>>, <<Role(<<"Backend Developer">>, 2, <<S_python>>),
             Role(<<"Other">>, 1, <<>>)>>}

\* ------------------------------------------------------ handler results
Ok(text, artifacts) ==
    [raised |-> FALSE, text |-> text, artifacts |-> artifacts, state |-> "completed"]
Exc(msg) ==
    [raised |-> TRUE, text |-> msg, artifacts |-> <<>>, state |-> "none"]

Artifact(name, part) == [name |-> name, parts |-> <<part>>]

\* "".join(texts)
RECURSIVE Concat(_)
Concat(texts) == IF texts = <<>> THEN <<>> ELSE Head(texts) \o Concat(Tail(texts))

\* str(n)
Str(n) == <<ToString(n)>>


\* one request to Text Generation, as the AIService method builds its prompt
GenRequest(type, args, nums, gen) ==
    [cache_type |-> type, args |-> args, nums |-> nums, raised |-> gen.raised]

\* what a handler hands back: its return value or exception, the
\* collaborators it used, in order, and the generation requests it made
Handled(ret, events, gen) == [ret |-> ret, events |-> events, gen |-> gen]

MaxTargetLen == 50
SearchLimit == 20
TopN == 10

\* ------------------------------------------ AIService generation methods
\* compare_skills without its except clause: what the failed call left
compare_skills_unguarded(skill1, skill2, gen) == gen.text

\* compare_skills: the model's text, or the fallback when the call raises
compare_skills(skill1, skill2, gen) ==
    IF gen.raised
    THEN <<"Unable to compare ">> \o skill1 \o <<" and ">> \o skill2
         \o <<" at this time.">>
    ELSE gen.text

generate_skill_learning_path(target_skill, gen) ==
    IF gen.raised
    THEN <<"Unable to generate learning path for ">> \o target_skill
         \o <<" at this time.">>
    ELSE gen.text

answer_question(gen) ==
    IF gen.raised
    THEN <<"I'm having trouble processing your question right now. Please try again or rephrase your question.">>
    ELSE gen.text

\* generate_trend_insights
generate_trend_insights(gen) ==
    IF gen.raised THEN <<"Unable to generate AI insights at this time.">>
    ELSE gen.text

\* summarize_jobs, chat_response and analyze_job_description; the last one
\* hands back json.loads of the model's text (JSON text starts with "{"),
\* and its fallback also answers text that is not JSON
AIServiceMethods(gen) ==
    LET unknown == [required_skills |-> <<>>, experience_level |-> <<"unknown">>,
                    key_responsibilities |-> <<>>, technology_stack |-> <<>>,
                    job_category |-> <<"general">>]
    IN  [summarize_jobs |->
            IF gen.raised THEN <<"Summary unavailable at this time.">> ELSE gen.text,
         chat_response |->
            IF gen.raised
            THEN <<"I'm having trouble right now. Could you try rephrasing your question?">>
            ELSE gen.text,
         analyze_job_description |->
            IF gen.raised \/ gen.text = <<>> \/ gen.text[1] # "{" THEN unknown
            ELSE [loads |-> gen.text]]

\* ------------------------------------------------ FreelanceAgent handlers
\* _compare_skills: the words of the text after the keywords are removed
PotentialSkills(user_text) ==
    LET words == Split(Replace(Replace(Replace(Lower(user_text), S_compare, <<>>),
                                       S_vs, <<" ">>),
                               <<"v","e","r","s","u","s">>, <<" ">>))
        stop_words == {<<"a","n","d">>, <<"t","h","e">>, <<"o","r">>,
                       <<"w","i","t","h">>}
        kept == SelectSeq(words, LAMBDA w : Len(w) > 2 /\ w \notin stop_words)
    IN  [i \in 1..Len(kept) |-> Strip(kept[i])]

\* next((s for s in all_skills if skill.lower() in s.name.lower()), None)
\* and its total_mentions, 0 when there is none
Mentions(all_skills, skill) ==
    LET found == SelectSeq(all_skills,
                           LAMBDA r : Contains(Lower(skill), Lower(r.name)))
    IN  IF found = <<>> THEN 0 ELSE found[1].total_mentions

_compare_skills(user_text, all_skills, db, gen) ==
    LET potential_skills == PotentialSkills(user_text)
    IN  IF Len(potential_skills) < 2
        THEN Handled(Ok(<<"Please specify two skills to compare (e.g., 'compare Python vs JavaScript')">>,
                        <<>>), <<>>, <<>>)
        ELSE LET skill1 == potential_skills[1]
                 skill2 == potential_skills[2]
                 comparison == compare_skills(skill1, skill2, gen)
             IN  IF db.fail # "none"
                 THEN Handled(Exc(db.msg), <<"store">>, <<>>)
                 ELSE Handled(
                        Ok(<<"**Comparing ">> \o Title(skill1) \o <<" vs ">>
                             \o Title(skill2) \o <<"**\n\n">> \o comparison,
                           <<Artifact("skill_comparison", TextPart(comparison))>>),
                        <<"store", "textgen">>,
                        <<GenRequest("skill_comparison", <<skill1, skill2>>,
                                     <<Mentions(all_skills, skill1),
                                       Mentions(all_skills, skill2)>>, gen)>>)

\* _get_learning_path
LearningTarget(user_text) ==
    LET words == Split(Replace(Replace(Replace(Lower(user_text), S_learn, <<>>),
                                       <<"l","e","a","r","n","i","n","g">>, <<>>),
                               <<"p","a","t","h">>, <<>>))
    IN  Slice(Join(<<" ">>, SelectSeq(words, LAMBDA w : Len(w) > 2)), MaxTargetLen)

_get_learning_path(user_text, gen) ==
    LET target_skill == LearningTarget(user_text)
        learning_path == generate_skill_learning_path(target_skill, gen)
    IN  IF target_skill = <<>>
        THEN Handled(Ok(<<"Please specify a skill you want to learn (e.g., 'learn React')">>,
                        <<>>), <<>>, <<>>)
        ELSE Handled(
               Ok(<<"**Learning Path for ">> \o Title(target_skill) \o <<"**\n\n">>
                    \o learning_path,
                  <<Artifact("learning_path", TextPart(learning_path))>>),
               <<"textgen">>,
               <<GenRequest("learning_path", <<target_skill>>, <<>>, gen)>>)

\* _get_help
HelpText ==
    <<"**Freelance Trends Agent - ", "Available Commands",
      "**\n\nI track remote freelance jobs from We Work Remotely across multiple categories!\n ... \nJust ask naturally and I'll help you discover remote job trends!\n">>

_get_help ==
    Handled(Ok(HelpText, <<Artifact("help", TextPart(HelpText))>>), <<>>, <<>>)


\* the listing with every skill the analyzer returned, not only the first 10
TrendingSkillsResponse_all(trending_skills) ==
    LET SkillLine(i, skill) ==
            Str(i) \o <<". **">> \o Title(skill.skill_name) \o <<"**: ">>
            \o Str(skill.current_mentions) \o <<" mentions (">> \o skill.growth_percentage
            \o <<")\n">>
    IN  <<"**Top Trending Skills (Last 30 Days)**\n\n",
          "Based on remote job listings from We Work Remotely:\n\n">>
        \o Concat([i \in 1..Len(trending_skills) |-> SkillLine(i, trending_skills[i])])

\* _get_trending_skills lines 140-143: the response text
TrendingSkillsResponse(trending_skills) ==
    LET SkillLine(i, skill) ==
            Str(i) \o <<". **">> \o Title(skill.skill_name) \o <<"**: ">>
            \o Str(skill.current_mentions) \o <<" mentions (">> \o skill.growth_percentage
            \o <<")\n">>
        top == Slice(trending_skills, TopN)
    IN  <<"**Top Trending Skills (Last 30 Days)**\n\n",
          "Based on remote job listings from We Work Remotely:\n\n">>
        \o Concat([i \in 1..Len(top) |-> SkillLine(i, top[i])])

\* _get_trending_skills without the test for an empty analyzer result
_get_trending_skills_unguarded(db, trending_skills) ==
    IF db.fail # "none" THEN Handled(Exc(db.msg), <<"store", "analyzer">>, <<>>)
    ELSE Handled(Ok(TrendingSkillsResponse(trending_skills),
                    <<Artifact("trending_skills",
                               DataPart(<<"skills", trending_skills>>))>>),
                 <<"store", "analyzer">>, <<>>)

\* _get_trending_skills
_get_trending_skills(db, trending_skills) ==
    IF db.fail # "none" THEN Handled(Exc(db.msg), <<"store", "analyzer">>, <<>>)
    ELSE IF trending_skills = <<>>
    THEN Handled(Ok(<<"No trending skills data available yet. Try running an analysis first.">>,
                    <<>>), <<"store", "analyzer">>, <<>>)
    ELSE Handled(Ok(TrendingSkillsResponse(trending_skills),
                    <<Artifact("trending_skills",
                               DataPart(<<"skills", trending_skills>>))>>),
                 <<"store", "analyzer">>, <<>>)

\* _get_trending_roles
_get_trending_roles(db, trending_roles) ==
    LET RoleLine(i, role) ==
            Str(i) \o <<". **">> \o role.role_name \o <<"**: ">> \o Str(role.job_count)
            \o <<" jobs\n", "   Top Skills: ">>
            \o (IF role.top_skills # <<>> THEN Join(<<", ">>, Slice(role.top_skills, 3))
                ELSE <<"N/A">>)
            \o <<"\n\n">>
        top == Slice(trending_roles, TopN)
        response == <<"**Top Trending Job Roles (Last 30 Days)**\n\n",
                      "From remote job postings across multiple categories:\n\n">>
                    \o Concat([i \in 1..Len(top) |-> RoleLine(i, top[i])])
    IN  IF db.fail # "none" THEN Handled(Exc(db.msg), <<"store", "analyzer">>, <<>>)
        ELSE IF trending_roles = <<>>
        THEN Handled(Ok(<<"No trending roles data available yet.">>, <<>>),
                     <<"store", "analyzer">>, <<>>)
        ELSE Handled(Ok(response,
                        <<Artifact("trending_roles",
                                   DataPart(<<"roles", trending_roles>>))>>),
                     <<"store", "analyzer">>, <<>>)

\* JobSearchQuery: a free-text/tag filter (None when not given) and a limit
JobSearchQuery(query, limit) == [query |-> query, limit |-> limit]

\* the Job Store's query(filter, limit): the jobs the filter selects, a job
\* being selected by a text when one of its tags occurs in it, cut to the limit
JobRepository_search_jobs(stored_jobs, search_query) ==
    Slice(IF search_query.query = NoneVal THEN stored_jobs
          ELSE SelectSeq(stored_jobs,
                         LAMBDA job : \E i \in 1..Len(job.tags) :
                             Contains(Lower(search_query.query), job.tags[i])),
          search_query.limit)

\* _search_jobs: the query text is not used; JobSearchQuery(limit=20)
_search_jobs(query_text, db, stored_jobs) ==
    LET JobData(job) ==
            [id |-> job.id, position |-> job.position, company |-> job.company,
             location |-> job.location, tags |-> job.tags, url |-> job.url,
             date_posted |-> job.date_posted]
        JobLine(i, job) ==
            Str(i) \o <<". **">> \o job.position \o <<"** at ">> \o job.company
            \o <<"\n", "   Location: ">> \o job.location
            \o <<"\n", "   Skills: ">>
            \o (IF job.tags # <<>> THEN Join(<<", ">>, Slice(job.tags, 5)) ELSE <<"N/A">>)
            \o <<"\n", "   Posted: ">> \o job.date_posted \o <<"\n">>
            \o (IF job.url # <<>> THEN <<"   Apply: ">> \o job.url \o <<"\n">> ELSE <<>>)
            \o <<"\n">>
        jobs == JobRepository_search_jobs(stored_jobs,
                                          JobSearchQuery(NoneVal, SearchLimit))
        top == Slice(jobs, TopN)
        response == <<"**Found ">> \o Str(Len(jobs)) \o <<" Recent Remote Jobs**\n\n",
                      "From We Work Remotely RSS Feeds:\n\n">>
                    \o Concat([i \in 1..Len(top) |-> JobLine(i, top[i])])
    IN  IF db.fail # "none" THEN Handled(Exc(db.msg), <<"store">>, <<>>)
        ELSE IF jobs = <<>>
        THEN Handled(Ok(<<"No jobs found matching your criteria.">>, <<>>),
                     <<"store">>, <<>>)
        ELSE Handled(Ok(response,
                        <<Artifact("job_search_results",
                                   DataPart(<<"jobs", [i \in 1..Len(jobs) |-> JobData(jobs[i])]>>))>>),
                     <<"store">>, <<>>)

\* the Job Store's counts and top skills
CountSince(stored_jobs, hours) ==
    Len(SelectSeq(stored_jobs, LAMBDA j : j.age_hours <= hours))
TopSkillNames(all_skills, limit) ==
    LET top == Slice(all_skills, limit) IN [i \in 1..Len(top) |-> top[i].name]

\* _get_statistics with the 7-day count taken over 24 hours
_get_statistics_same_period(db, stored_jobs, all_skills) ==
    LET total_jobs == Len(stored_jobs)
        jobs_24h == CountSince(stored_jobs, 24)
        jobs_7d == CountSince(stored_jobs, 24)
        skill_names == TopSkillNames(all_skills, 5)
        response == <<"**Freelance Jobs Statistics**\n\n",
                      "Data aggregated from We Work Remotely RSS feeds:\n\n",
                      "**Total Jobs Tracked**: ">> \o Str(total_jobs)
                    \o <<"\n", "**Last 24 Hours**: ">> \o Str(jobs_24h)
                    \o <<" jobs\n", "**Last 7 Days**: ">> \o Str(jobs_7d)
                    \o <<" jobs\n", "**Top Skills**: ">> \o Join(<<", ">>, skill_names)
                    \o <<"\n", "\n**All positions are remote-friendly**\n">>
        stats_data == <<"total_jobs", total_jobs, "jobs_24h", jobs_24h,
                        "jobs_7d", jobs_7d, "top_skills", skill_names,
                        "data_sources", <<"We Work Remotely RSS Feeds">> >>
    IN  IF db.fail # "none" THEN Handled(Exc(db.msg), <<"store">>, <<>>)
        ELSE Handled(Ok(response, <<Artifact("statistics", DataPart(stats_data))>>),
                     <<"store">>, <<>>)

\* _get_statistics
_get_statistics(db, stored_jobs, all_skills) ==
    LET total_jobs == Len(stored_jobs)
        jobs_24h == CountSince(stored_jobs, 24)
        jobs_7d == CountSince(stored_jobs, 24 * 7)
        skill_names == TopSkillNames(all_skills, 5)
        response == <<"**Freelance Jobs Statistics**\n\n",
                      "Data aggregated from We Work Remotely RSS feeds:\n\n",
                      "**Total Jobs Tracked**: ">> \o Str(total_jobs)
                    \o <<"\n", "**Last 24 Hours**: ">> \o Str(jobs_24h)
                    \o <<" jobs\n", "**Last 7 Days**: ">> \o Str(jobs_7d)
                    \o <<" jobs\n", "**Top Skills**: ">> \o Join(<<", ">>, skill_names)
                    \o <<"\n", "\n**All positions are remote-friendly**\n">>
        stats_data == <<"total_jobs", total_jobs, "jobs_24h", jobs_24h,
                        "jobs_7d", jobs_7d, "top_skills", skill_names,
                        "data_sources", <<"We Work Remotely RSS Feeds">> >>
    IN  IF db.fail # "none" THEN Handled(Exc(db.msg), <<"store">>, <<>>)
        ELSE Handled(Ok(response, <<Artifact("statistics", DataPart(stats_data))>>),
                     <<"store">>, <<>>)


\* _run_analysis: what TrendAnalyzer.run_full_analysis can hand back
AnalysisResult(n, insights) ==
    [total_jobs_analyzed |-> n, trending_skills_count |-> 2,
     trending_roles_count |-> 2, ai_insights |-> insights]
\* TrendAnalyzer.run_full_analysis: the insight is what generate_trend_insights
\* hands back, and None when no text generation is available
run_full_analysis(n, available, gen) ==
    AnalysisResult(n, IF available THEN generate_trend_insights(gen) ELSE NoneVal)

CallOutcomes ==
    {[raised |-> FALSE, msg |-> <<>>]} \cup {[raised |-> TRUE, msg |-> m] : m \in ExcMsgs}

_run_analysis(outcome, result) ==
    LET response == <<"**Comprehensive Trend Analysis Completed**\n\n",
                      "Analyzed ">> \o Str(result.total_jobs_analyzed)
                    \o <<" remote jobs\n", "Found ">>
                    \o Str(result.trending_skills_count)
                    \o <<" trending skills\n", "Found ">>
                    \o Str(result.trending_roles_count)
                    \o <<" trending roles\n",
                         "Data from We Work Remotely RSS feeds\n\n">>
                    \o (IF result.ai_insights \notin {NoneVal, <<>>}
                        THEN <<"**AI Insights:**\n\n">> \o result.ai_insights
                        ELSE <<>>)
    IN  IF outcome.raised THEN Handled(Exc(outcome.msg), <<"analyzer">>, <<>>)
        ELSE Handled(Ok(response,
                        <<Artifact("analysis_result", DataPart(<<"result", result>>))>>),
                     <<"analyzer">>, <<>>)

\* _scrape_jobs: the summary that RSSFeedScraper.scrape_and_store hands back
ScrapeResult(fetched, stored_jobs) ==
    LET added == SelectSeq(fetched, LAMBDA j : \A i \in 1..Len(stored_jobs) :
                                                  stored_jobs[i].id # j.id)
    IN  [feeds_processed |-> 5, total_fetched |-> Len(fetched),
         jobs_added |-> Len(added), jobs_updated |-> Len(fetched) - Len(added),
         skills_added |-> 0, new_jobs |-> added]

_scrape_jobs(outcome, result) ==
    LET response == <<"**RSS Feed Scraping Completed**\n\n",
                      "**Feeds Processed**: ">> \o Str(result.feeds_processed)
                    \o <<"\n", "**Fetched**: ">> \o Str(result.total_fetched)
                    \o <<" jobs\n", "**New Jobs**: ">> \o Str(result.jobs_added)
                    \o <<"\n", "**Updated Jobs**: ">> \o Str(result.jobs_updated)
                    \o <<"\n", "**Skills Tracked**: ">> \o Str(result.skills_added)
                    \o <<"\n\n",
                         "Sources: Full-Stack, Frontend, Programming, Design, DevOps categories">>
    IN  IF outcome.raised THEN Handled(Exc(outcome.msg), <<"scraper">>, <<>>)
        ELSE Handled(Ok(response,
                        <<Artifact("scrape_result",
                                   DataPart(<<"feeds_processed", result.feeds_processed,
                                              "total_fetched", result.total_fetched,
                                              "jobs_added", result.jobs_added,
                                              "jobs_updated", result.jobs_updated,
                                              "skills_added", result.skills_added>>))>>),
                     <<"scraper">>, <<>>)

\* _get_latest_analysis; latest is <<>> when the store has no analysis
AnalysisRecord(result) ==
    [analysis_date |-> <<"2025-01-02 10:00">>,
     total_jobs_analyzed |-> result.total_jobs_analyzed,
     unique_skills_found |-> 3,
     trending_skills |-> <<Trend(S_python, 3, <<"New">>), Trend(S_react, 2, <<"New">>)>>,
     ai_insights |-> result.ai_insights]

_get_latest_analysis(db, latest) ==
    LET TopSkillLine(skill) ==
            <<"* ">> \o skill.skill_name \o <<": ">> \o skill.growth_percentage \o <<"\n">>
        analysis == latest[1]
        top_3 == Slice(analysis.trending_skills, 3)
        response == <<"**Latest Trend Analysis**\n\n", "Date: ">>
                    \o analysis.analysis_date
                    \o <<"\n", "Jobs Analyzed: ">> \o Str(analysis.total_jobs_analyzed)
                    \o <<"\n", "Unique Skills: ">> \o Str(analysis.unique_skills_found)
                    \o <<"\n">>
                    \o (IF analysis.trending_skills # <<>>
                        THEN <<"\n**Top 3 Trending Skills:**\n">>
                             \o Concat([i \in 1..Len(top_3) |-> TopSkillLine(top_3[i])])
                        ELSE <<>>)
                    \o (IF analysis.ai_insights \notin {NoneVal, <<>>}
                        THEN <<"\n**AI Insights:**\n\n">> \o analysis.ai_insights
                        ELSE <<>>)
    IN  IF db.fail # "none" THEN Handled(Exc(db.msg), <<"store">>, <<>>)
        ELSE IF latest = <<>>
        THEN Handled(Ok(<<"No analysis available yet. Run 'analyze trends' first.">>,
                        <<>>), <<"store">>, <<>>)
        ELSE Handled(Ok(response,
                        <<Artifact("latest_analysis", DataPart(<<"analysis", analysis>>))>>),
                     <<"store">>, <<>>)

\* _answer_question
_answer_question(user_text, db, gen, stored_jobs, all_skills) ==
    LET answer == answer_question(gen)
    IN  IF db.fail # "none" THEN Handled(Exc(db.msg), <<"store">>, <<>>)
        ELSE Handled(Ok(<<"**Answer:**\n\n">> \o answer,
                        <<Artifact("ai_answer", TextPart(answer))>>),
                     <<"store", "textgen">>,
                     <<GenRequest("answer_question", <<user_text>>,
                                  <<Len(stored_jobs), CountSince(stored_jobs, 24 * 7)>>,
                                  gen)>>)

\* ------------------------------------------------- Task Result Assembler
AgentMessage(text, task_id) ==
    [role |-> "agent", messageId |-> "auto", taskId |-> task_id,
     parts |-> <<TextPart(text)>>]

TaskResult(id, contextId, state, message, artifacts, history) ==
    [id |-> id, contextId |-> contextId,
     status |-> [state |-> state, message |-> message],
     artifacts |-> artifacts, history |-> history]

NoResult ==
    TaskResult(NoId, NoId, "none", AgentMessage(<<>>, NoId), <<>>, <<>>)

\* list + [item]: a new list; the left operand stays as it is
ListPlus(list, item) == [left |-> list, sum |-> list \o <<item>>]

\* _create_error_result without the "Error: " prefix
_create_error_result_bare(context_id, task_id, error_msg, history) ==
    LET error_message == AgentMessage(error_msg, task_id)
    IN  TaskResult(task_id, context_id, "failed", error_message, <<>>,
                   ListPlus(history, error_message).sum)

\* _create_error_result with the state of a normal answer
_create_error_result_completed(context_id, task_id, error_msg, history) ==
    LET error_message == AgentMessage(<<"Error: ">> \o error_msg, task_id)
    IN  TaskResult(task_id, context_id, "completed", error_message, <<>>,
                   ListPlus(history, error_message).sum)

\* _create_error_result
_create_error_result(context_id, task_id, error_msg, history) ==
    LET error_message == AgentMessage(<<"Error: ">> \o error_msg, task_id)
    IN  TaskResult(task_id, context_id, "failed", error_message, <<>>,
                   ListPlus(history, error_message).sum)


\* ------------------------------------------------------------ the state
VARIABLES
    pc,             \* where the current process_messages call is
    calls,          \* number of calls made
    messages,       \* the caller's message list
    context_id,     \* context_id and task_id after lines 43-44
    task_id,
    user_text,      \* the utterance handed to _handle_intent
    classifier_response, \* what _cached_generate did inside classify_intent
    intent_data,    \* what classify_intent returned
    handled,        \* what the dispatched branch handed back
    result,         \* the TaskResult returned to the caller
    trace,          \* classify_intent, the branch taken, collaborators used
    genLog,         \* requests made to Text Generation in this call
    uuidCount,      \* uuid4() values drawn so far
    store,          \* the Job Store
    conversations,  \* FreelanceAgent.conversations
    supplied,       \* the context_id and task_id arguments of the call
    trends          \* what the Trend Analyzer returned in this call

agentVars == <<pc, calls, messages, context_id, task_id, user_text,
               classifier_response, intent_data, handled, result, trace, genLog,
               uuidCount, store, conversations, supplied, trends>>

\* one AIService and the coroutines that call its _cached_generate
VARIABLES
    now,            \* time.time(), in seconds
    request_cache,  \* self._request_cache: cache key -> (time, response)
    request_times,  \* self.request_times
    total_requests, \* self.total_requests
    cache_hits,     \* self.cache_hits
    ai_calls,       \* _cached_generate calls started so far
    sleepers,       \* calls suspended in asyncio.sleep of _check_rate_limit
    api_log,        \* the times of the external model calls made
    cached_calls,   \* _cached_generate calls with use_cache = True so far
    last            \* the _cached_generate or clear_cache call that ended last

aiVars == <<now, request_cache, request_times, total_requests, cache_hits,
            ai_calls, sleepers, api_log, cached_calls, last>>

\* the HTTP endpoint a2a_endpoint and the tasks it leaves in the background
VARIABLES
    body,           \* the request the endpoint is handling or handled last
    ep_pc,          \* idle, awaiting (process_messages running), responded
    http_response,  \* what the endpoint handed back for that request
    served,         \* requests received so far
    agent_calls,    \* the process_messages calls made, in order: for which
                    \* request, and by the endpoint or by a background task
    background,     \* tasks made by asyncio.create_task(process_and_notify)
    callbacks       \* the outbound POSTs of process_and_notify

epVars == <<body, ep_pc, http_response, served, agent_calls, background, callbacks>>

\* the application lifespan and its periodic scraping tasks
VARIABLES
    lifespan,       \* where lifespan() is, and what the environment sets
    scrapers        \* rss_scraper_task and scraper_task

lifeVars == <<lifespan, scrapers>>

\* the database sessions of get_db_context and the /health endpoint
VARIABLES
    sessions,       \* per session made by SessionLocal(), what was done to it
    health          \* the last health_check call: what its queries and the
                    \* commit did, and what it handed back

dbVars == <<sessions, health>>

vars == <<agentVars, aiVars, epVars, lifeVars, dbVars>>

NoHandled ==
    Handled([raised |-> FALSE, text |-> <<>>, artifacts |-> <<>>, state |-> "none"],
            <<>>, <<>>)
NoIntent == JsonOther("null")

\* ------------------------------------------------------------ AIService
\* self.cache_ttls
cache_ttls ==
    [intent_classification |-> 3600, trend_insights |-> 86400,
     skill_comparison |-> 43200, learning_path |-> 604800, job_analysis |-> 3600,
     answer_question |-> 1800, summarize_jobs |-> 3600, chat_response |-> 0,
     default |-> 1800]

\* self.cache_ttls.get(cache_type, self.cache_ttls["default"])
CacheTtl(cache_type) ==
    IF cache_type \in DOMAIN cache_ttls THEN cache_ttls[cache_type]
    ELSE cache_ttls["default"]

max_requests_per_minute == 10
RateWindow == 60
DequeMaxLen == 60

\* the MD5 digests of the prompts the callers build, one per prompt
Md5(prompt) == IF prompt = "prompt a" THEN "0cc1" ELSE "92eb"

\* _get_cache_key
_get_cache_key(prompt, cache_type) == <<cache_type, Md5(prompt)>>

\* the calls of _cached_generate that the methods of AIService make:
\* chat_response passes use_cache = False, every other method True
GenerateCalls ==
    {[cache_type |-> "answer_question", prompt |-> q, use_cache |-> TRUE] :
        q \in {"prompt a", "prompt b"}}
    \cup {[cache_type |-> "chat_response", prompt |-> "prompt a", use_cache |-> FALSE]}

\* the calls of summarize_jobs and compare_skills, which always may use the
\* cache: the workload under which the cache is cleared and its counters read
CacheCalls ==
    {[cache_type |-> "summarize_jobs", prompt |-> q, use_cache |-> TRUE] :
        q \in {"prompt a", "prompt b"}}
    \cup {[cache_type |-> "skill_comparison", prompt |-> "prompt a", use_cache |-> TRUE]}

CacheKeys ==
    {_get_cache_key(c.prompt, c.cache_type) : c \in GenerateCalls \cup CacheCalls}

\* a cache entry (cached_time, cached_response), or the key's absence
Entry(present, time, response) ==
    [present |-> present, time |-> time, response |-> response]

\* the instants at which the clock is read, besides the ends of sleeps
Instants == {0, 59, 1800}

\* one _cached_generate call: its arguments, the time _check_rate_limit read,
\* the time its sleep ends, how it ended and what it returned
Call(id, c, read, wake, outcome, response) ==
    [id |-> id, cache_type |-> c.cache_type, prompt |-> c.prompt,
     use_cache |-> c.use_cache, read |-> read, wake |-> wake,
     outcome |-> outcome, response |-> response]
NoCall ==
    Call(0, [cache_type |-> "default", prompt |-> "", use_cache |-> FALSE],
         0, 0, "none", 0)

\* _check_rate_limit lines 56-57: drop the request times older than a minute
RECURSIVE PopExpired(_, _)
PopExpired(times, t) ==
    IF times # <<>> /\ t - Head(times) > RateWindow THEN PopExpired(Tail(times), t)
    ELSE times

\* deque(maxlen=60).append
DequeAppend(times, t) ==
    IF Len(times) >= DequeMaxLen THEN Append(Tail(times), t) ELSE Append(times, t)

\* lines 73-75 with the age test the wrong way round
Fresh_inverted(c, cache, t) ==
    LET key == _get_cache_key(c.prompt, c.cache_type)
    IN  /\ c.use_cache
        /\ CacheTtl(c.cache_type) > 0
        /\ cache[key].present
        /\ t - cache[key].time > CacheTtl(c.cache_type)

\* lines 73-75 serving an entry whose age has just reached the TTL
Fresh_inclusive(c, cache, t) ==
    LET key == _get_cache_key(c.prompt, c.cache_type)
    IN  /\ c.use_cache
        /\ CacheTtl(c.cache_type) > 0
        /\ cache[key].present
        /\ t - cache[key].time <= CacheTtl(c.cache_type)

\* lines 73-75: the entry of this call's key is served from the cache
Fresh(c, cache, t) ==
    LET key == _get_cache_key(c.prompt, c.cache_type)
    IN  /\ c.use_cache
        /\ CacheTtl(c.cache_type) > 0
        /\ cache[key].present
        /\ t - cache[key].time < CacheTtl(c.cache_type)

\* ---------------------------------------------------------- a2a_endpoint
\* ids of the JSON-RPC layer are <<kind, n>> like the agent's; NoId is None
\* and EmptyId the empty string
EmptyId == <<"empty", 0>>

\* schemas.ai.Message; NoMessage is params.message = None
Message(parts, messageId) ==
    [kind |-> "message", role |-> "user", parts |-> parts, messageId |-> messageId]
NoMessage == Message(<<>>, NoId)

\* params.configuration is a dict (none is FALSE, keys are the keys it has)
\* or None
NoConfiguration ==
    [none |-> TRUE, keys |-> {}, blocking |-> TRUE,
     pushNotificationConfig |-> [keys |-> {}, url |-> <<>>]]

\* schemas.ai.JSONRPCParams: every field is optional
JSONRPCParams(message, configuration, msgs, contextId, taskId) ==
    [message |-> message, configuration |-> configuration, messages |-> msgs,
     contextId |-> contextId, taskId |-> taskId]

\* what await request.json() finds: json says whether the bytes parse and to
\* what; keys are the members a parsed object has
Body(json, keys, jsonrpc, id, method, params) ==
    [json |-> json, keys |-> keys, jsonrpc |-> jsonrpc, id |-> id,
     method |-> method, params |-> params]
NoBody ==
    Body("none", {}, "", NoId, "",
         JSONRPCParams(NoMessage, NoConfiguration, <<>>, NoId, NoId))

EnvelopeKeys == {"jsonrpc", "id", "method", "params"}

\* the requests a caller can send as its n-th
RequestBodies(n) ==
    LET RequestId(i) == <<"request", i>>
        MessageId(i) == <<"message", i>>
        Configuration(keys, blocking, push) ==
            [none |-> FALSE, keys |-> keys, blocking |-> blocking,
             pushNotificationConfig |-> push]
        text == TextPart(<<"find jobs">>)
        dict == DataPart([form |-> "dict", text |-> <<"trends">>])
        list == DataPart([form |-> "list", text |-> <<>>])
        hook(url) == [keys |-> {"url", "token"}, url |-> url]
        none == [keys |-> {}, url |-> <<>>]
        token == [keys |-> {"token"}, url |-> <<>>]
        configurations ==
            {NoConfiguration,
             Configuration({"blocking"}, FALSE, none),
             Configuration({"blocking", "pushNotificationConfig"}, FALSE, none),
             Configuration({"blocking", "pushNotificationConfig"}, FALSE, token),
             Configuration({"blocking", "pushNotificationConfig"}, FALSE,
                           hook(<<"https://", "hook">>)),
             Configuration({"blocking", "pushNotificationConfig"}, FALSE,
                           hook(<<"ftp://", "hook">>)),
             Configuration({"blocking", "pushNotificationConfig"}, TRUE,
                           hook(<<"https://", "hook">>)),
             Configuration({"pushNotificationConfig"}, TRUE, hook(<<"https://", "hook">>))}
        sent == {Message(<<list, dict, text>>, MessageId(1)),
                 Message(<<text>>, EmptyId), NoMessage}
        lists == {<<>>, <<Message(<<text>>, MessageId(1))>>,
                  <<Message(<<text>>, EmptyId), Message(<<TextPart(NoneVal)>>, MessageId(2))>>}
        send(c, m) ==
            Body("object", EnvelopeKeys, "2.0", RequestId(n), "message/send",
                 JSONRPCParams(m, c, <<>>, NoId, NoId))
        execute(ms, tid) ==
            Body("object", EnvelopeKeys, "2.0", RequestId(n), "execute",
                 JSONRPCParams(NoMessage, NoConfiguration, ms, NoId, tid))
        base == send(NoConfiguration, Message(<<text>>, MessageId(1)))
    IN  {send(c, Message(<<list, dict, text>>, MessageId(1))) : c \in configurations}
        \cup {send(NoConfiguration, m) : m \in sent}
        \cup {execute(ms, tid) : ms \in lists, tid \in {NoId, <<"given", 2>>}}
        \cup {[base EXCEPT !.method = "tasks/get"],
              [base EXCEPT !.jsonrpc = "1.0"],
              [base EXCEPT !.keys = EnvelopeKeys \ {"jsonrpc"}, !.jsonrpc = ""],
              [base EXCEPT !.keys = EnvelopeKeys \ {"id"}, !.id = NoId],
              [base EXCEPT !.keys = EnvelopeKeys \ {"method"}, !.method = ""],
              [base EXCEPT !.keys = EnvelopeKeys \ {"params"},
                           !.params = NoBody.params],
              [NoBody EXCEPT !.json = "array"],
              [NoBody EXCEPT !.json = "unparseable"]}

\* what the HTTP caller gets: a JSON-RPC object with result or error, the
\* processing acknowledgment, null (the handler returned None), or the
\* framework's answer to a handler that raised
Response(status_code, kind, id, code, res) ==
    [status_code |-> status_code, kind |-> kind, id |-> id, code |-> code,
     result |-> res]
NoResponse == Response(0, "none", NoId, 0, NoResult)

Init ==
    /\ pc = "idle"
    /\ calls = 0
    /\ messages = <<>>
    /\ context_id = NoId
    /\ task_id = NoId
    /\ user_text = <<>>
    /\ classifier_response = GenRaise
    /\ intent_data = NoIntent
    /\ handled = NoHandled
    /\ result = NoResult
    /\ trace = <<>>
    /\ genLog = <<>>
    /\ uuidCount = 0
    /\ store = [jobs |-> StoredJobs, skills |-> StoreSkills, analysis |-> <<>>]
    /\ conversations = <<>>
    /\ supplied = [context_id |-> NoId, task_id |-> NoId]
    /\ trends = <<>>
    /\ now = 0
    /\ request_cache = [k \in CacheKeys |-> Entry(FALSE, 0, 0)]
    /\ request_times = <<>>
    /\ total_requests = 0
    /\ cache_hits = 0
    /\ ai_calls = 0
    /\ sleepers = <<>>
    /\ api_log = <<>>
    /\ cached_calls = 0
    /\ last = NoCall
    /\ body = NoBody
    /\ ep_pc = "idle"
    /\ http_response = NoResponse
    /\ served = 0
    /\ agent_calls = <<>>
    /\ background = <<>>
    /\ callbacks = <<>>
    /\ lifespan = [pc |-> "starting", api_url |-> FALSE]
    /\ sessions = <<>>
    /\ health = [total_jobs |-> <<"none", 0>>, jobs_24h |-> <<"none", 0>>,
                 commit |-> "none", raised |-> FALSE,
                 response |->
                    [status |-> "none", agent |-> "none",
                     database |-> [connected |-> FALSE, total_jobs |-> 0,
                                   jobs_last_24h |-> 0],
                     scrapers |-> [rss_enabled |-> FALSE, api_enabled |-> FALSE]]]
    /\ scrapers = [t \in {"rss", "api"} |->
                      [state |-> "none", runs |-> 0, cancel_called |-> FALSE,
                       awaited |-> FALSE]]

\* ---------------------------------------------------- process_messages
\* lines 43-56: the identifiers, the empty list, the utterance
ProcessMessages(msgs, ctx, tid) ==
    LET n1 == IF ctx = NoId THEN uuidCount + 1 ELSE uuidCount
        n2 == IF tid = NoId THEN n1 + 1 ELSE n1
        cid == IF ctx = NoId THEN Uuid(n1) ELSE ctx
        tsk == IF tid = NoId THEN Uuid(n2) ELSE tid
        texts == SelectSeq(msgs[Len(msgs)].parts, LAMBDA p : p.kind = "text")
        error == _create_error_result(cid, tsk, <<"No message provided">>, msgs)
    IN  /\ pc = "idle"
        /\ calls < MaxCalls
        /\ calls' = calls + 1
        /\ context_id' = cid
        /\ task_id' = tsk
        /\ uuidCount' = n2
        /\ classifier_response' = GenRaise
        /\ intent_data' = NoIntent
        /\ handled' = NoHandled
        /\ trace' = <<>>
        /\ genLog' = <<>>
        /\ IF msgs = <<>>
           THEN /\ result' = error
                /\ messages' = ListPlus(msgs, error.status.message).left
                /\ user_text' = <<>>
                /\ pc' = "returned"
           ELSE IF texts # <<>> /\ texts[1].text = NoneVal
           THEN \* part.text.strip() on None: AttributeError, outside the try
                /\ result' = NoResult
                /\ messages' = msgs
                /\ user_text' = <<>>
                /\ pc' = "raised"
           ELSE /\ result' = NoResult
                /\ messages' = msgs
                /\ user_text' = IF texts = <<>> THEN <<>>
                                ELSE Lower(Strip(texts[1].text))
                /\ pc' = "classify"
        /\ supplied' = [context_id |-> ctx, task_id |-> tid]
        /\ trends' = <<>>
        /\ UNCHANGED <<store, conversations, aiVars, epVars, lifeVars, dbVars>>

\* _handle_intent line 88: await self.ai_service.classify_intent(user_text)
ClassifyIntent ==
    /\ pc = "classify"
    /\ \E outcome \in ClassifyOutcomes :
           /\ classifier_response' = outcome
           /\ intent_data' = classify_intent(outcome)
           /\ genLog' = Append(genLog, GenRequest("intent_classification",
                                                  <<user_text>>, <<>>, outcome))
    /\ trace' = Append(trace, "classify_intent")
    /\ pc' = "dispatch"
    /\ UNCHANGED <<calls, messages, context_id, task_id, user_text, handled, result,
                   uuidCount, store, conversations, supplied, trends, aiVars, epVars, lifeVars, dbVars>>

\* the chain with a final else that answers the question instead of helping
Branch_answer(intent) ==
    IF intent \in DispatchedIntents THEN intent
    ELSE IF intent = "get_help" THEN "get_help"
    ELSE "answer_question"

\* the branch of the if/elif chain of _handle_intent that an intent takes
Branch(intent) == IF intent \in DispatchedIntents THEN intent ELSE "get_help"

\* entities = intent_data.get("entities", {}); entities.get raises when the
\* value is not a mapping
EntitiesRaise(d) == d.ekind \in {"null", "list"}
AttrErr(d) ==
    IF d.ekind = "null" THEN <<"'NoneType' object has no attribute 'get'">>
    ELSE <<"'list' object has no attribute 'get'">>
\* entities.get(key)
EntGet(d, key) == IF d.emap[key] = Absent THEN NoneVal ELSE d.emap[key]
Truthy(v) == v # NoneVal /\ v # <<>>

\* lines 79-81 with a fixed text in place of str(e)
process_messages_result_generic(h, msgs, cid, tsk) ==
    LET response_message == AgentMessage(h.ret.text, tsk)
    IN  IF h.ret.raised
        THEN _create_error_result(cid, tsk, <<"Internal error">>, msgs)
        ELSE TaskResult(tsk, cid, h.ret.state, response_message, h.ret.artifacts,
                        ListPlus(msgs, response_message).sum)

\* lines 63-81 with id and contextId taking each other's value
process_messages_result_swapped(h, msgs, cid, tsk) ==
    LET response_message == AgentMessage(h.ret.text, tsk)
    IN  IF h.ret.raised
        THEN _create_error_result(cid, tsk, h.ret.text, msgs)
        ELSE TaskResult(cid, tsk, h.ret.state, response_message, h.ret.artifacts,
                        ListPlus(msgs, response_message).sum)

\* lines 63-81: the result for what the branch handed back
process_messages_result(h, msgs, cid, tsk) ==
    LET response_message == AgentMessage(h.ret.text, tsk)
    IN  IF h.ret.raised
        THEN _create_error_result(cid, tsk, h.ret.text, msgs)
        ELSE TaskResult(tsk, cid, h.ret.state, response_message, h.ret.artifacts,
                        ListPlus(msgs, response_message).sum)

\* the rest of the call once branch b has handed back h
Finish(b, h) ==
    LET res == process_messages_result(h, messages, context_id, task_id)
    IN  /\ handled' = h
        /\ trace' = trace \o <<b>> \o h.events
        /\ genLog' = genLog \o h.gen
        /\ result' = res
        /\ messages' = ListPlus(messages, res.status.message).left
        /\ pc' = "returned"
        /\ UNCHANGED <<calls, context_id, task_id, user_text, classifier_response,
                       intent_data, uuidCount, conversations, supplied, aiVars, epVars, lifeVars, dbVars>>

Dispatching(b) == pc = "dispatch" /\ Branch(intent_data.intent) = b

HandleGetTrendingSkills ==
    /\ Dispatching("get_trending_skills")
    /\ \E db \in DbOutcomes, t \in TrendLists :
           /\ Finish("get_trending_skills", _get_trending_skills(db, t))
           /\ trends' = IF db.fail = "query" THEN <<>> ELSE t
    /\ UNCHANGED store

HandleGetTrendingRoles ==
    /\ Dispatching("get_trending_roles")
    /\ \E db \in DbOutcomes, r \in RoleLists :
           /\ Finish("get_trending_roles", _get_trending_roles(db, r))
           /\ trends' = IF db.fail = "query" THEN <<>> ELSE r
    /\ UNCHANGED store

HandleSearchJobs ==
    /\ Dispatching("search_jobs")
    /\ \E db \in DbOutcomes :
           Finish("search_jobs",
                  IF EntitiesRaise(intent_data)
                  THEN Handled(Exc(AttrErr(intent_data)), <<>>, <<>>)
                  ELSE _search_jobs(IF intent_data.emap["job_query"] = Absent
                                    THEN user_text
                                    ELSE intent_data.emap["job_query"],
                                    db, store.jobs))
    /\ UNCHANGED <<store, trends>>

HandleGetStatistics ==
    /\ Dispatching("get_statistics")
    /\ \E db \in DbOutcomes :
           Finish("get_statistics", _get_statistics(db, store.jobs, store.skills))
    /\ UNCHANGED <<store, trends>>

HandleRunAnalysis ==
    /\ Dispatching("run_analysis")
    /\ \E outcome \in CallOutcomes, available \in BOOLEAN,
          gen \in TextGenOutcomes \cup {GenText(<<>>)} :
           LET analysis == run_full_analysis(Len(store.jobs), available, gen)
               requests == IF available /\ ~outcome.raised
                           THEN <<GenRequest("trend_insights", <<>>, <<>>, gen)>>
                           ELSE <<>>
           IN  /\ ~available => gen = GenRaise
               /\ Finish("run_analysis",
                         [_run_analysis(outcome, analysis) EXCEPT !.gen = requests])
               /\ store' = IF outcome.raised THEN store
                           ELSE [store EXCEPT !.analysis = <<AnalysisRecord(analysis)>>]
    /\ UNCHANGED trends

HandleScrapeJobs ==
    /\ Dispatching("scrape_jobs")
    /\ \E outcome \in CallOutcomes, fetched \in {<<>>, <<JobOne, JobTwo>>} :
           LET summary == ScrapeResult(fetched, store.jobs)
           IN  /\ Finish("scrape_jobs", _scrape_jobs(outcome, summary))
               /\ store' = IF outcome.raised THEN store
                           ELSE [store EXCEPT !.jobs = @ \o summary.new_jobs]
    /\ UNCHANGED trends

HandleGetLatestAnalysis ==
    /\ Dispatching("get_latest_analysis")
    /\ \E db \in DbOutcomes :
           Finish("get_latest_analysis", _get_latest_analysis(db, store.analysis))
    /\ UNCHANGED <<store, trends>>

HandleCompareSkills ==
    /\ Dispatching("compare_skills")
    /\ \E db \in DbOutcomes, gen \in TextGenOutcomes :
           LET skill1 == EntGet(intent_data, "skill1")
               skill2 == EntGet(intent_data, "skill2")
           IN  Finish("compare_skills",
                      IF EntitiesRaise(intent_data)
                      THEN Handled(Exc(AttrErr(intent_data)), <<>>, <<>>)
                      ELSE IF Truthy(skill1) /\ Truthy(skill2)
                      THEN _compare_skills(S_compare \o <<" ">> \o skill1
                                             \o <<" ", "v", "s", " ">> \o skill2,
                                           store.skills, db, gen)
                      ELSE Handled(Ok(<<"Please specify two skills to compare.">>, <<>>),
                                   <<>>, <<>>))
    /\ UNCHANGED <<store, trends>>

HandleGetLearningPath ==
    /\ Dispatching("get_learning_path")
    /\ \E gen \in TextGenOutcomes :
           LET target_skill == EntGet(intent_data, "target_skill")
           IN  Finish("get_learning_path",
                      IF EntitiesRaise(intent_data)
                      THEN Handled(Exc(AttrErr(intent_data)), <<>>, <<>>)
                      ELSE IF Truthy(target_skill)
                      THEN _get_learning_path(S_learn \o <<" ">> \o target_skill, gen)
                      ELSE Handled(Ok(<<"Please specify a skill to learn.">>, <<>>),
                                   <<>>, <<>>))
    /\ UNCHANGED <<store, trends>>

HandleAnswerQuestion ==
    /\ Dispatching("answer_question")
    /\ \E db \in DbOutcomes, gen \in TextGenOutcomes :
           Finish("answer_question",
                  _answer_question(user_text, db, gen, store.jobs, store.skills))
    /\ UNCHANGED <<store, trends>>

HandleGetHelp ==
    /\ Dispatching("get_help")
    /\ Finish("get_help", _get_help)
    /\ UNCHANGED <<store, trends>>

\* the caller takes the result, or the exception
Return ==
    /\ pc \in {"returned", "raised"}
    /\ pc' = "idle"
    /\ messages' = <<>>
    /\ context_id' = NoId
    /\ task_id' = NoId
    /\ user_text' = <<>>
    /\ classifier_response' = GenRaise
    /\ intent_data' = NoIntent
    /\ handled' = NoHandled
    /\ result' = NoResult
    /\ trace' = <<>>
    /\ genLog' = <<>>
    /\ supplied' = [context_id |-> NoId, task_id |-> NoId]
    /\ trends' = <<>>
    /\ UNCHANGED <<calls, uuidCount, store, conversations, aiVars, epVars, lifeVars, dbVars>>

Next ==
    \/ \E msgs \in MessageLists, ctx \in {NoId, <<"given", 1>>},
          tid \in {NoId, <<"given", 2>>} :
           ProcessMessages(msgs, ctx, tid)
    \/ ClassifyIntent
    \/ HandleGetTrendingSkills
    \/ HandleGetTrendingRoles
    \/ HandleSearchJobs
    \/ HandleGetStatistics
    \/ HandleRunAnalysis
    \/ HandleScrapeJobs
    \/ HandleGetLatestAnalysis
    \/ HandleCompareSkills
    \/ HandleGetLearningPath
    \/ HandleAnswerQuestion
    \/ HandleGetHelp
    \/ Return

Spec == Init /\ [][Next]_vars

\* ------------------------------------------------- AIService._cached_generate
\* lines 87-111 storing every response, whatever use_cache and the TTL are
CallModel_always_store(c, times, outcome) ==
    LET key == _get_cache_key(c.prompt, c.cache_type)
        response == c.id
    IN  /\ request_times' = times
        /\ total_requests' = total_requests + 1
        /\ api_log' = Append(api_log, now)
        /\ IF outcome = "response"
           THEN /\ request_cache' = [request_cache EXCEPT ![key] = Entry(TRUE, now, response)]
                /\ last' = [c EXCEPT !.outcome = "response", !.response = response]
           ELSE /\ request_cache' = request_cache
                /\ last' = [c EXCEPT !.outcome = "raised"]

\* lines 87-111 dropping the key's entry when the model call fails
CallModel_drops_entry(c, times, outcome) ==
    LET key == _get_cache_key(c.prompt, c.cache_type)
        response == c.id
    IN  /\ request_times' = times
        /\ total_requests' = total_requests + 1
        /\ api_log' = Append(api_log, now)
        /\ IF outcome = "response"
           THEN /\ request_cache' =
                      IF c.use_cache /\ CacheTtl(c.cache_type) > 0
                      THEN [request_cache EXCEPT ![key] = Entry(TRUE, now, response)]
                      ELSE request_cache
                /\ last' = [c EXCEPT !.outcome = "response", !.response = response]
           ELSE /\ request_cache' = [request_cache EXCEPT ![key] = Entry(FALSE, 0, 0)]
                /\ last' = [c EXCEPT !.outcome = "raised"]

\* lines 87-111: the call is counted, the model is called, a response is
\* stored under the call's key when caching applies, an exception propagates
CallModel(c, times, outcome) ==
    LET key == _get_cache_key(c.prompt, c.cache_type)
        response == c.id
    IN  /\ request_times' = times
        /\ total_requests' = total_requests + 1
        /\ api_log' = Append(api_log, now)
        /\ IF outcome = "response"
           THEN /\ request_cache' =
                      IF c.use_cache /\ CacheTtl(c.cache_type) > 0
                      THEN [request_cache EXCEPT ![key] = Entry(TRUE, now, response)]
                      ELSE request_cache
                /\ last' = [c EXCEPT !.outcome = "response", !.response = response]
           ELSE /\ request_cache' = request_cache
                /\ last' = [c EXCEPT !.outcome = "raised"]

\* a call starts: the calls are bounded, and among the calls of GenerateCalls
\* those that may use the cache too
Start(c) ==
    /\ ai_calls < MaxAICalls
    /\ c \in GenerateCalls /\ c.use_cache => cached_calls < MaxCachedCalls
    /\ ai_calls' = ai_calls + 1
    /\ cached_calls' = IF c.use_cache THEN cached_calls + 1 ELSE cached_calls

\* lines 73-83: a fresh entry answers the call
CacheHit(c) ==
    /\ Start(c)
    /\ Fresh(c, request_cache, now)
    /\ cache_hits' = cache_hits + 1
    /\ last' = Call(ai_calls + 1, c, now, now, "hit",
                    request_cache[_get_cache_key(c.prompt, c.cache_type)].response)
    /\ UNCHANGED <<now, request_cache, request_times, total_requests, sleepers,
                   api_log, agentVars, epVars, lifeVars, dbVars>>

\* no fresh entry and the budget is free: the call goes through at once
Generate(c) ==
    LET times == PopExpired(request_times, now)
    IN  /\ Start(c)
        /\ ~Fresh(c, request_cache, now)
        /\ Len(times) < max_requests_per_minute
        /\ \E outcome \in {"response", "raised"} :
               CallModel(Call(ai_calls + 1, c, now, now, "none", 0),
                         DequeAppend(times, now), outcome)
        /\ UNCHANGED <<now, cache_hits, sleepers, agentVars, epVars, lifeVars, dbVars>>

\* a rate limiter that raises when the budget is used up
RateLimited_rejects(c) ==
    LET times == PopExpired(request_times, now)
    IN  /\ Start(c)
        /\ ~Fresh(c, request_cache, now)
        /\ Len(times) >= max_requests_per_minute
        /\ request_times' = times
        /\ last' = Call(ai_calls + 1, c, now, now, "raised", 0)
        /\ UNCHANGED <<now, request_cache, total_requests, cache_hits, api_log,
                       sleepers, agentVars, epVars, lifeVars, dbVars>>

\* no fresh entry and the budget is used up: the call suspends in
\* asyncio.sleep(wait_time) of _check_rate_limit
RateLimited(c) ==
    LET times == PopExpired(request_times, now)
        wait_time == RateWindow - (now - times[1])
    IN  /\ Start(c)
        /\ ~Fresh(c, request_cache, now)
        /\ Len(times) >= max_requests_per_minute
        /\ request_times' = times
        /\ sleepers' = Append(sleepers,
                              Call(ai_calls + 1, c, now, now + wait_time, "none", 0))
        /\ UNCHANGED <<now, request_cache, total_requests, cache_hits, api_log,
                       last, agentVars, epVars, lifeVars, dbVars>>

\* the sleep of call i is over: line 64 appends the time read before the
\* sleep, and _cached_generate goes on to call the model
Resume(i) ==
    /\ i \in 1..Len(sleepers)
    /\ sleepers[i].wake <= now
    /\ sleepers' = SubSeq(sleepers, 1, i - 1) \o SubSeq(sleepers, i + 1, Len(sleepers))
    /\ \E outcome \in {"response", "raised"} :
           CallModel(sleepers[i], DequeAppend(request_times, sleepers[i].read), outcome)
    /\ UNCHANGED <<now, cache_hits, ai_calls, cached_calls, agentVars, epVars, lifeVars, dbVars>>

\* time passes, to a later instant or to the end of a sleep
Tick ==
    /\ \E t \in Instants \cup {sleepers[i].wake : i \in 1..Len(sleepers)} :
           t > now /\ now' = t
    /\ UNCHANGED <<request_cache, request_times, total_requests, cache_hits,
                   ai_calls, sleepers, api_log, cached_calls, last, agentVars, epVars, lifeVars, dbVars>>

NextAI ==
    \/ \E c \in GenerateCalls : CacheHit(c)
    \/ \E c \in GenerateCalls : Generate(c)
    \/ \E c \in GenerateCalls : RateLimited(c)
    \/ \E i \in 1..MaxAICalls : Resume(i)
    \/ Tick

SpecAI == Init /\ [][NextAI]_vars

\* the rate limiter under callers that never use the cache; the event loop
\* resumes a coroutine whose sleep has ended, and time passes
NextLimiter ==
    \/ \E c \in {g \in GenerateCalls : ~g.use_cache} : Generate(c)
    \/ \E c \in {g \in GenerateCalls : ~g.use_cache} : RateLimited(c)
    \/ \E i \in 1..MaxAICalls : Resume(i)
    \/ Tick

SpecLimiter ==
    /\ Init
    /\ [][NextLimiter]_vars
    /\ WF_vars(Tick)
    /\ \A i \in 1..MaxAICalls : WF_vars(Resume(i))

\* clear_cache dropping every entry, whatever category it is given
clear_cache_everything(cache_type) ==
    /\ request_cache' = [k \in DOMAIN request_cache |-> Entry(FALSE, 0, 0)]
    /\ last' = Call(ai_calls,
                    [cache_type |-> cache_type, prompt |-> "", use_cache |-> FALSE],
                    now, now, "cleared", 0)
    /\ UNCHANGED <<now, request_times, total_requests, cache_hits, ai_calls,
                   sleepers, api_log, cached_calls, agentVars, epVars, lifeVars, dbVars>>

\* lines 113-126: clear_cache(cache_type); "" stands for the values that
\* `if cache_type:` takes as false, None (the default) and the empty
\* string.  A key starts with the category and a colon, and no category
\* holds a colon
clear_cache(cache_type) ==
    /\ request_cache' =
          [k \in DOMAIN request_cache |->
              IF cache_type = "" \/ k[1] = cache_type THEN Entry(FALSE, 0, 0)
              ELSE request_cache[k]]
    /\ last' = Call(ai_calls,
                    [cache_type |-> cache_type, prompt |-> "", use_cache |-> FALSE],
                    now, now, "cleared", 0)
    /\ UNCHANGED <<now, request_times, total_requests, cache_hits, ai_calls,
                   sleepers, api_log, cached_calls, agentVars, epVars, lifeVars, dbVars>>

\* lines 530-555: get_stats; cache_hit_rate in tenths of a percent, as the
\* format .1f rounds it
get_stats ==
    [total_requests |-> total_requests,
     cache_hits |-> cache_hits,
     cache_hit_rate |->
        IF total_requests > 0
        THEN (2000 * cache_hits + total_requests) \div (2 * total_requests)
        ELSE 0,
     cache_size |-> Cardinality({k \in DOMAIN request_cache : request_cache[k].present}),
     recent_requests_count |-> Len(request_times),
     max_requests_per_minute |-> max_requests_per_minute]

\* the cache under calls that may all use it, cleared at any time
NextCache ==
    \/ \E c \in CacheCalls : CacheHit(c) /\ ai_calls < MaxCacheCalls
    \/ \E c \in CacheCalls : Generate(c) /\ ai_calls < MaxCacheCalls
    \/ \E cache_type \in {"", "summarize_jobs", "skill_comparison", "job_analysis"} :
          clear_cache(cache_type)
    \/ Tick

SpecCache == Init /\ [][NextCache]_vars


\* ---------------------------------------------------------- a2a_endpoint
\* the error object of lines 405-418
InternalError(b) ==
    Response(500, "error", IF "id" \in b.keys THEN b.id ELSE NoId, -32603, NoResult)

\* JSONRPCRequest(**body): whether the body passes validation
JSONRPCRequest(b) == EnvelopeKeys \subseteq b.keys

\* lines 305-358 reading blocking without its default of True
AgentArgs_no_default(b) ==
    LET RECURSIVE UserText(_)
        \* lines 312-327: the text taken from the parts of a message
        UserText(parts) ==
            IF parts = <<>> THEN <<>>
            ELSE LET part == Head(parts)
                 IN  IF part.kind = "text" /\ Truthy(part.text) THEN part.text
                     ELSE IF part.kind = "data" /\ part.data.text # <<>>
                     THEN part.data.text
                     ELSE UserText(Tail(parts))
        msg == b.params.message
        config == b.params.configuration
        send == b.method = "message/send"
        execute == b.method = "execute"
        has_push == /\ send
                    /\ ~config.none /\ config.keys # {}
                    /\ "pushNotificationConfig" \in config.keys
    IN  [messages |-> IF send
                      THEN <<Message(<<TextPart(UserText(msg.parts))>>, msg.messageId)>>
                      ELSE IF execute THEN b.params.messages ELSE <<>>,
         context_id |-> IF execute THEN b.params.contextId ELSE NoId,
         task_id |-> IF execute THEN b.params.taskId ELSE NoId,
         is_blocking |-> send /\ ~config.none /\ "blocking" \in config.keys
                            /\ config.blocking,
         push_config |-> IF has_push THEN config.pushNotificationConfig
                         ELSE [keys |-> {}, url |-> <<>>],
         request_id |-> b.id]

\* lines 304-354: the arguments the endpoint makes for process_messages
AgentArgs(b) ==
    LET RECURSIVE UserText(_)
        \* lines 312-327: the text taken from the parts of a message
        UserText(parts) ==
            IF parts = <<>> THEN <<>>
            ELSE LET part == Head(parts)
                 IN  IF part.kind = "text" /\ Truthy(part.text) THEN part.text
                     ELSE IF part.kind = "data" /\ part.data.text # <<>>
                     THEN part.data.text
                     ELSE UserText(Tail(parts))
        msg == b.params.message
        config == b.params.configuration
        send == b.method = "message/send"
        execute == b.method = "execute"
        has_push == /\ send
                    /\ ~config.none /\ config.keys # {}
                    /\ "pushNotificationConfig" \in config.keys
    IN  [messages |-> IF send
                      THEN <<Message(<<TextPart(UserText(msg.parts))>>, msg.messageId)>>
                      ELSE IF execute THEN b.params.messages ELSE <<>>,
         context_id |-> IF execute THEN b.params.contextId ELSE NoId,
         task_id |-> IF execute THEN b.params.taskId ELSE NoId,
         is_blocking |-> IF send /\ ~config.none /\ "blocking" \in config.keys
                         THEN config.blocking ELSE TRUE,
         push_config |-> IF has_push THEN config.pushNotificationConfig
                         ELSE [keys |-> {}, url |-> <<>>],
         request_id |-> b.id]

\* what a process_messages call hands to the endpoint: the k-th call of the
\* process draws the fresh ids Uuid(3k-2) .. Uuid(3k)
AgentOutcomes ==
    {[state |-> "completed",
      artifacts |-> <<Artifact("statistics", DataPart(<<"payload">>)),
                      Artifact("empty", DataPart(<<>>))>>],
     [state |-> "failed", artifacts |-> <<>>]}

freelance_agent_process_messages(args, outcome, k) ==
    LET cid == IF args.context_id = NoId THEN Uuid(3 * k - 2) ELSE args.context_id
        tsk == IF args.task_id = NoId THEN Uuid(3 * k - 1) ELSE args.task_id
        msgs == args.messages
        texts == SelectSeq(msgs[Len(msgs)].parts, LAMBDA p : p.kind = "text")
        reply(text) == [AgentMessage(text, tsk) EXCEPT !.messageId = Uuid(3 * k)]
    IN  IF msgs = <<>>
        THEN [raised |-> FALSE,
              result |-> TaskResult(tsk, cid, "failed",
                                    reply(<<"Error: ", "No message provided">>),
                                    <<>>, <<>>)]
        ELSE IF texts # <<>> /\ texts[1].text = NoneVal
        THEN [raised |-> TRUE, result |-> NoResult]
        ELSE [raised |-> FALSE,
              result |-> TaskResult(tsk, cid, outcome.state, reply(<<"answer">>),
                                    outcome.artifacts, <<>>)]

\* main.py 127-278: data parts that carry data become markdown text parts
normalize_to_text(obj) ==
    LET text(part) == IF part.kind = "data" /\ Truthy(part.data)
                      THEN TextPart(<<"markdown of ">> \o part.data)
                      ELSE part
        each(parts) == [i \in 1..Len(parts) |-> text(parts[i])]
    IN  [obj EXCEPT !.status.message.parts = each(@),
                    !.artifacts = [i \in 1..Len(@) |->
                                      [@[i] EXCEPT !.parts = each(@)]]]

\* a2a_endpoint up to its return or to the await of process_messages
Receive(b) ==
    LET args == AgentArgs(b)
        task == [args |-> args, stage |-> "created", call |-> 0]
    IN  /\ ep_pc # "awaiting"
        /\ served < MaxRequests
        /\ b \in RequestBodies(served + 1)
        /\ served' = served + 1
        /\ body' = b
        /\ IF b.json = "unparseable"
           THEN \* request.json() raises before body is bound
                /\ http_response' = Response(500, "error", NoId, -32603, NoResult)
                /\ ep_pc' = "responded"
                /\ UNCHANGED <<agent_calls, background>>
           ELSE IF b.json = "array"
           THEN \* body.get raises, and raises again in the except clause
                /\ http_response' = Response(500, "raised", NoId, 0, NoResult)
                /\ ep_pc' = "responded"
                /\ UNCHANGED <<agent_calls, background>>
           ELSE IF "jsonrpc" \notin b.keys \/ b.jsonrpc # "2.0" \/ "id" \notin b.keys
           THEN /\ http_response' = Response(400, "error",
                                           IF "id" \in b.keys THEN b.id ELSE NoId,
                                           -32600, NoResult)
                /\ ep_pc' = "responded"
                /\ UNCHANGED <<agent_calls, background>>
           ELSE IF \/ ~JSONRPCRequest(b)
                   \/ b.method = "message/send" /\ b.params.message.messageId = NoId
           THEN \* a validation error, or msg.parts read on None (line 312)
                /\ http_response' = InternalError(b)
                /\ ep_pc' = "responded"
                /\ UNCHANGED <<agent_calls, background>>
           ELSE IF ~args.is_blocking /\ args.push_config.keys # {}
           THEN /\ background' = Append(background, task)
                /\ http_response' = Response(200, "processing", b.id, 0, NoResult)
                /\ ep_pc' = "responded"
                /\ UNCHANGED agent_calls
           ELSE /\ agent_calls' = Append(agent_calls,
                                      [request_id |-> b.id, by |-> "endpoint"])
                /\ http_response' = NoResponse
                /\ ep_pc' = "awaiting"
                /\ UNCHANGED background
        /\ UNCHANGED <<callbacks, agentVars, aiVars, lifeVars, dbVars>>

\* lines 387-403 without the two assignments of lines 395-398
AgentReturns_keeps_ids(outcome) ==
    LET args == AgentArgs(body)
        k == CHOOSE i \in 1..Len(agent_calls) :
                /\ agent_calls[i].by = "endpoint"
                /\ \A j \in (i + 1)..Len(agent_calls) : agent_calls[j].by # "endpoint"
        ret == freelance_agent_process_messages(args, outcome, k)
        res == normalize_to_text(ret.result)
        incoming_message_id == args.messages[1].messageId
    IN  /\ ep_pc = "awaiting"
        /\ ep_pc' = "responded"
        /\ http_response' =
              IF ret.raised THEN InternalError(body)
              ELSE IF args.messages # <<>> /\ incoming_message_id \notin {NoId, EmptyId}
              THEN Response(200, "result", body.id, 0,
                            res)
              ELSE Response(200, "null", NoId, 0, NoResult)
        /\ UNCHANGED <<body, served, agent_calls, background, callbacks,
                       agentVars, aiVars, lifeVars, dbVars>>

\* lines 387-403 and 405-418: a2a_endpoint once process_messages has ended
AgentReturns(outcome) ==
    LET args == AgentArgs(body)
        k == CHOOSE i \in 1..Len(agent_calls) :
                /\ agent_calls[i].by = "endpoint"
                /\ \A j \in (i + 1)..Len(agent_calls) : agent_calls[j].by # "endpoint"
        ret == freelance_agent_process_messages(args, outcome, k)
        res == normalize_to_text(ret.result)
        incoming_message_id == args.messages[1].messageId
    IN  /\ ep_pc = "awaiting"
        /\ ep_pc' = "responded"
        /\ http_response' =
              IF ret.raised THEN InternalError(body)
              ELSE IF args.messages # <<>> /\ incoming_message_id \notin {NoId, EmptyId}
              THEN Response(200, "result", body.id, 0,
                            [res EXCEPT !.id = incoming_message_id,
                                        !.status.message.messageId = incoming_message_id])
              ELSE Response(200, "null", NoId, 0, NoResult)
        /\ UNCHANGED <<body, served, agent_calls, background, callbacks,
                       agentVars, aiVars, lifeVars, dbVars>>

\* process_and_notify lines 425-431: the task starts and awaits the agent
NotifyStart(i) ==
    /\ i \in 1..Len(background)
    /\ background[i].stage = "created"
    /\ background' = [background EXCEPT ![i].stage = "processing",
                                         ![i].call = Len(agent_calls) + 1]
    /\ agent_calls' = Append(agent_calls,
                             [request_id |-> background[i].args.request_id,
                              by |-> "background"])
    /\ UNCHANGED <<body, ep_pc, http_response, served, callbacks, agentVars, aiVars, lifeVars, dbVars>>

\* process_and_notify with a failed POST handed to the HTTP caller
NotifyFinish_reports(i, outcome, NOTIFICATION_URL, post) ==
    /\ i \in 1..Len(background)
    /\ background[i].stage = "processing"
    /\ background' = [background EXCEPT ![i].stage = "done"]
    /\ callbacks' = Append(callbacks,
                           [url |-> NOTIFICATION_URL, authorization |-> FALSE,
                            json |-> InternalError(body), outcome |-> post])
    /\ http_response' = IF post = "raised" THEN InternalError(body) ELSE http_response
    /\ UNCHANGED <<body, ep_pc, served, agent_calls, agentVars, aiVars, lifeVars, dbVars>>

\* process_and_notify lines 433-487: the agent has ended; the callback
NotifyFinish(i, outcome, NOTIFICATION_URL, post) ==
    LET task == background[i]
        ret == freelance_agent_process_messages(task.args, outcome, task.call)
        push_config == task.args.push_config
        notification_url == IF "url" \in push_config.keys /\ push_config.url # <<>>
                            THEN push_config.url ELSE NOTIFICATION_URL
        posts == /\ ~ret.raised
                 /\ notification_url # <<>>
                 /\ notification_url[1] \in {"http://", "https://"}
    IN  /\ i \in 1..Len(background)
        /\ task.stage = "processing"
        /\ posts \/ post = "sent"
        /\ background' = [background EXCEPT ![i].stage = "done"]
        /\ callbacks' =
              IF posts
              THEN Append(callbacks,
                          [url |-> notification_url,
                           authorization |-> "token" \in push_config.keys,
                           json |-> Response(200, "result", task.args.request_id, 0,
                                             ret.result),
                           outcome |-> post])
              ELSE callbacks
        /\ UNCHANGED <<body, ep_pc, http_response, served, agent_calls,
                       agentVars, aiVars, lifeVars, dbVars>>

NextEndpoint ==
    \/ \E b \in UNION {RequestBodies(n) : n \in 1..MaxRequests} : Receive(b)
    \/ \E outcome \in AgentOutcomes : AgentReturns(outcome)
    \/ \E i \in 1..MaxRequests : NotifyStart(i)
    \/ \E i \in 1..MaxRequests, outcome \in AgentOutcomes,
          url \in {<<>>, <<"https://", "env">>}, post \in {"sent", "raised"} :
          NotifyFinish(i, outcome, url, post)

SpecEndpoint == Init /\ [][NextEndpoint]_vars

\* the event loop runs every task made by asyncio.create_task, and the
\* awaits of process_and_notify end (the POST has a 30 s timeout)
SpecEndpointLive ==
    /\ SpecEndpoint
    /\ \A i \in 1..MaxRequests :
          /\ WF_vars(NotifyStart(i))
          /\ WF_vars(\E outcome \in AgentOutcomes,
                        url \in {<<>>, <<"https://", "env">>},
                        post \in {"sent", "raised"} :
                        NotifyFinish(i, outcome, url, post))

\* --------------------------------------------------------------- lifespan
\* rss_scraper_task and scraper_task are None (state "none") or an asyncio
\* task that sleeps and scrapes in turn until it is cancelled or a scrape
\* ends it with an error.
\* lifespan lines 35-88, up to the yield: the two tasks are made; startup
\* raises when init_db or a constructor does
Startup(api_url, ok) ==
    /\ lifespan.pc = "starting"
    /\ lifespan' = [pc |-> IF ok THEN "serving" ELSE "startup raised",
                    api_url |-> api_url]
    /\ scrapers' = IF ok
                   THEN [t \in {"rss", "api"} |->
                           IF t = "rss" \/ api_url
                           THEN [scrapers[t] EXCEPT !.state = "sleeping"]
                           ELSE scrapers[t]]
                   ELSE scrapers
    /\ UNCHANGED <<agentVars, aiVars, epVars, dbVars>>

\* one step of a periodic task: the interval ends and a scrape starts, or
\* the scrape ends and the task sleeps again, or its error ends the task
ScraperRound(t, outcome) ==
    /\ ~scrapers[t].cancel_called
    /\ \/ /\ scrapers[t].state = "sleeping"
          /\ scrapers[t].runs < MaxScrapes
          /\ outcome = "stored"
          /\ scrapers' = [scrapers EXCEPT ![t].state = "scraping"]
       \/ /\ scrapers[t].state = "scraping"
          /\ scrapers' = [scrapers EXCEPT
                             ![t].state = IF outcome = "raised" THEN "failed"
                                          ELSE "sleeping",
                             ![t].runs = @ + 1]
    /\ UNCHANGED <<lifespan, agentVars, aiVars, epVars, dbVars>>

\* CancelledError reaches a task whose cancel() was called while it ran
Cancelled(t) ==
    /\ scrapers[t].state \in {"sleeping", "scraping"}
    /\ scrapers[t].cancel_called
    /\ scrapers' = [scrapers EXCEPT ![t].state = "cancelled"]
    /\ UNCHANGED <<lifespan, agentVars, aiVars, epVars, dbVars>>

\* lines 90-102: the application shuts down and lifespan resumes after the
\* yield.  For each task made: cancel() and await; awaiting a task that has
\* ended with an error raises that error, which is not a CancelledError
Shutdown ==
    LET ShutdownTask(t, after) ==
            IF scrapers[t].state = "none"
            THEN [pc |-> after, tasks |-> scrapers]
            ELSE LET called == [scrapers EXCEPT ![t].cancel_called = TRUE]
                 IN  IF scrapers[t].state = "failed"
                     THEN [pc |-> "raised",
                           tasks |-> [called EXCEPT ![t].awaited = TRUE]]
                     ELSE [pc |-> "await " \o t, tasks |-> called]
        rss == ShutdownTask("rss", "api")
        api == ShutdownTask("api", "stopped")
    IN  /\ lifespan.pc = "serving"
        /\ lifespan' = [lifespan EXCEPT !.pc = IF rss.pc = "api" THEN api.pc ELSE rss.pc]
        /\ scrapers' = IF rss.pc = "api" THEN api.tasks ELSE rss.tasks
        /\ UNCHANGED <<agentVars, aiVars, epVars, dbVars>>

\* lines 93-102: the awaited RSS task has ended; on to the API task
AwaitRss ==
    LET done == [scrapers EXCEPT !["rss"].awaited = TRUE]
        called == [done EXCEPT !["api"].cancel_called = TRUE]
    IN  /\ lifespan.pc = "await rss"
        /\ scrapers["rss"].state = "cancelled"
        /\ IF scrapers["api"].state = "none"
           THEN lifespan' = [lifespan EXCEPT !.pc = "stopped"] /\ scrapers' = done
           ELSE IF scrapers["api"].state = "failed"
           THEN /\ lifespan' = [lifespan EXCEPT !.pc = "raised"]
                /\ scrapers' = [called EXCEPT !["api"].awaited = TRUE]
           ELSE lifespan' = [lifespan EXCEPT !.pc = "await api"] /\ scrapers' = called
        /\ UNCHANGED <<agentVars, aiVars, epVars, dbVars>>

\* lines 100-104: the awaited API task has ended
AwaitApi ==
    /\ lifespan.pc = "await api"
    /\ scrapers["api"].state = "cancelled"
    /\ lifespan' = [lifespan EXCEPT !.pc = "stopped"]
    /\ scrapers' = [scrapers EXCEPT !["api"].awaited = TRUE]
    /\ UNCHANGED <<agentVars, aiVars, epVars, dbVars>>

NextLifespan ==
    \/ \E api_url \in BOOLEAN, ok \in BOOLEAN : Startup(api_url, ok)
    \/ \E t \in {"rss", "api"}, outcome \in {"stored", "raised"} :
          ScraperRound(t, outcome)
    \/ \E t \in {"rss", "api"} : Cancelled(t)
    \/ Shutdown
    \/ AwaitRss
    \/ AwaitApi

\* the event loop delivers a requested cancellation and resumes lifespan
SpecLifespan ==
    /\ Init /\ [][NextLifespan]_vars
    /\ \A t \in {"rss", "api"} : WF_vars(Cancelled(t))
    /\ WF_vars(AwaitRss) /\ WF_vars(AwaitApi)

\* ------------------------------------------------------- get_db_context
\* what a count query of JobRepository does: it raises, or returns a count
CountOutcomes == {<<"raised", 0>>} \cup {<<"count", n>> : n \in 0..MaxJobs}

\* get_db_context with a failed commit left as it is
get_db_context_swallows(with_body, commit) ==
    IF with_body = "raises"
    THEN [events |-> <<"rollback", "close">>, raised |-> TRUE]
    ELSE IF commit = "raises"
    THEN [events |-> <<"commit raised", "close">>, raised |-> FALSE]
    ELSE [events |-> <<"commit", "close">>, raised |-> FALSE]

\* get_db_context that closes the session only when all went well
get_db_context_leaks(with_body, commit) ==
    IF with_body = "raises"
    THEN [events |-> <<"rollback">>, raised |-> TRUE]
    ELSE IF commit = "raises"
    THEN [events |-> <<"commit raised", "rollback">>, raised |-> TRUE]
    ELSE [events |-> <<"commit", "close">>, raised |-> FALSE]

\* db/session.py 43-54: what is done to the session, in order, when the
\* body of the with statement completes or raises and db.commit() returns
\* or raises; raised tells whether an exception leaves the with statement
get_db_context(with_body, commit) ==
    IF with_body = "raises"
    THEN [events |-> <<"rollback", "close">>, raised |-> TRUE]
    ELSE IF commit = "raises"
    THEN [events |-> <<"commit raised", "rollback", "close">>, raised |-> TRUE]
    ELSE [events |-> <<"commit", "close">>, raised |-> FALSE]

\* main.py 490-518: GET /health.  The second query runs only when the first
\* returned; any exception of the with statement sets both counts to -1
HealthCheck(q1, q2, commit) ==
    LET with_body == IF "raised" \in {q1[1], q2[1]} THEN "raises" ELSE "completes"
        db == get_db_context(with_body, commit)
        total_jobs == IF db.raised THEN -1 ELSE q1[2]
        jobs_24h == IF db.raised THEN -1 ELSE q2[2]
    IN  /\ Len(sessions) < MaxHealthChecks
        /\ q1[1] = "raised" => q2[1] = "raised"
        /\ with_body = "raises" => commit = "ok"
        /\ sessions' = Append(sessions, db.events)
        /\ health' =
              [total_jobs |-> q1, jobs_24h |-> q2,
               commit |-> IF with_body = "raises" THEN "none" ELSE commit,
               raised |-> FALSE,
               response |->
                  [status |-> "healthy", agent |-> "freelance-trends",
                   database |-> [connected |-> total_jobs >= 0,
                                 total_jobs |-> total_jobs,
                                 jobs_last_24h |-> jobs_24h],
                   scrapers |-> [rss_enabled |-> TRUE,
                                 api_enabled |-> lifespan.api_url]]]
        /\ UNCHANGED <<agentVars, aiVars, epVars, lifeVars>>

NextHealth ==
    \/ \E q1 \in CountOutcomes, q2 \in CountOutcomes, commit \in {"ok", "raises"} :
          HealthCheck(q1, q2, commit)

SpecHealth == Init /\ [][NextHealth]_vars

\* --------------------------------------------------------------- claims
CallEnded == pc \in {"returned", "raised"}
Classified == pc \in {"dispatch", "returned"} /\ trace # <<>>
ResponseText == result.status.message.parts[1].text
StartsWithError(text) == text # <<>> /\ text[1] = "Error: "
HasPiece(text, piece) == \E i \in 1..Len(text) : text[i] = piece
HasArtifact(name) == \E i \in 1..Len(result.artifacts) : result.artifacts[i].name = name
Branches == DispatchedIntents \cup {"get_help"}
Count(seq, S) == Cardinality({i \in 1..Len(seq) : seq[i] \in S})
ClarificationPrompts ==
    {<<"Please specify two skills to compare.">>,
     <<"Please specify two skills to compare (e.g., 'compare Python vs JavaScript')">>,
     <<"Please specify a skill to learn.">>,
     <<"Please specify a skill you want to learn (e.g., 'learn React')">>}

\* C1: every call with a non-empty list of N messages returns a result whose
\* history is the N input messages, unchanged and in order, followed by the
\* response message of status.message, for completed and for failed turns,
\* and the caller's list is not modified during the call.
C1_HistoryAppendOnly ==
    /\ [](CallEnded /\ messages # <<>>
            => /\ pc = "returned"
               /\ Len(result.history) = Len(messages) + 1
               /\ SubSeq(result.history, 1, Len(messages)) = messages
               /\ result.history[Len(result.history)] = result.status.message)
    /\ [][(pc \in {"classify", "dispatch"}) => (messages' = messages)]_vars

\* C2: a call with an empty list returns a failed task whose text starts with
\* "Error:", without artifacts, and uses neither the classifier nor the
\* store, the scraper, the analyzer or text generation.
C2_EmptyListFails ==
    pc = "returned" /\ messages = <<>>
        => /\ result.status.state = "failed"
           /\ StartsWithError(ResponseText)
           /\ result.artifacts = <<>>
           /\ trace = <<>>
           /\ genLog = <<>>

C2_Witness ==
    pc = "returned" /\ messages = <<>> /\ result.status.state = "failed"

\* C3: when intent handling raises an exception with message M the call
\* returns a failed task with text exactly "Error: M", no artifacts, and a
\* history of every input message followed by the error message.
C3_ExceptionBecomesFailed ==
    pc = "returned" /\ handled.ret.raised
        => /\ result.status.state = "failed"
           /\ ResponseText = <<"Error: ">> \o handled.ret.text
           /\ result.artifacts = <<>>
           /\ result.history = messages \o <<result.status.message>>

C3_Witness ==
    /\ pc = "returned"
    /\ handled.ret.raised
    /\ handled.ret.text \in ExcMsgs
    /\ Len(messages) = 2
    /\ result.status.state = "failed"

\* C4: a classifier result whose intent is not one of the ten dispatched
\* intents (get_help, an unknown string, no intent) ends the turn completed
\* with the help listing and an artifact named help, never failed.
C4_UnknownIntentGetsHelp ==
    pc = "returned" /\ trace # <<>> /\ intent_data.intent \notin DispatchedIntents
        => /\ result.status.state = "completed"
           /\ HasPiece(ResponseText, "Available Commands")
           /\ HasArtifact("help")

C4_Witness ==
    /\ pc = "returned"
    /\ intent_data.intent = "tell_joke"
    /\ result.status.state = "completed"

\* C5: compare_skills without two skill entities (one missing or empty, or no
\* usable entities mapping), and get_learning_path without target_skill, end
\* the turn completed with a clarification prompt, never failed.
C5_MissingEntityClarifies ==
    /\ pc = "returned"
    /\ trace # <<>>
    /\ \/ /\ intent_data.intent = "compare_skills"
          /\ ~(Truthy(EntGet(intent_data, "skill1"))
               /\ Truthy(EntGet(intent_data, "skill2")))
       \/ /\ intent_data.intent = "get_learning_path"
          /\ ~Truthy(EntGet(intent_data, "target_skill"))
    => /\ result.status.state = "completed"
       /\ ResponseText \in ClarificationPrompts

\* C6: when classification fails (the generation call raises, its text is
\* missing or not parseable JSON, or the JSON is not an object)
\* classify_intent returns intent get_help with empty entities, and the turn
\* ends completed with the help listing.
ClassificationFailed(outcome) ==
    \/ outcome.raised
    \/ ~outcome.hasText
    \/ ~JsonLoads(StripFences(outcome.text)).ok
    \/ JsonLoads(StripFences(outcome.text)).value.t # "obj"

C6_ClassifierFailureFallsBack ==
    Classified /\ ClassificationFailed(classifier_response)
        => /\ intent_data.t = "obj"
           /\ intent_data.intent = "get_help"
           /\ intent_data.ekind = "dict"
           /\ intent_data.emap = NoEntities
           /\ pc = "returned"
                => /\ result.status.state = "completed"
                   /\ HasPiece(ResponseText, "Available Commands")

C6_Witness ==
    /\ pc = "returned"
    /\ classifier_response = GenText(<<Tok("json", JsonOther("list"))>>)
    /\ result.status.state = "completed"

\* C7: every returned result is completed or failed; it is failed exactly
\* when the list was empty or intent handling raised, and completed
\* otherwise, the 'no data' and 'missing parameter' answers included.
C7_TerminalState ==
    pc = "returned"
        => /\ result.status.state \in {"completed", "failed"}
           /\ result.status.state = "failed"
                <=> (messages = <<>> \/ handled.ret.raised)

C7_Witness ==
    /\ pc = "returned"
    /\ messages # <<>>
    /\ result.status.state = "completed"
    /\ result.artifacts = <<>>

\* C8: every call with a non-empty list invokes classify_intent exactly once,
\* before any store, scraper, analyzer or other generation access, then takes
\* exactly one action, and ends completed or failed.
C8_OneTransitionPerTurn ==
    CallEnded /\ messages # <<>>
        => /\ pc = "returned"
           /\ Len(trace) >= 2
           /\ trace[1] = "classify_intent"
           /\ Count(trace, {"classify_intent"}) = 1
           /\ trace[2] \in Branches
           /\ Count(trace, Branches) = 1
           /\ genLog[1].cache_type = "intent_classification"
           /\ result.status.state \in {"completed", "failed"}

\* C9: for intent compare_skills with non-empty skill1 and skill2, the
\* comparison is requested from Text Generation for exactly those two
\* skills, up to letter case, whatever their length or number of words.
C9_ComparesClassifierSkills ==
    /\ pc = "returned"
    /\ intent_data.intent = "compare_skills"
    /\ Truthy(EntGet(intent_data, "skill1"))
    /\ Truthy(EntGet(intent_data, "skill2"))
    /\ ~handled.ret.raised
    => \E i \in 1..Len(genLog) :
           /\ genLog[i].cache_type = "skill_comparison"
           /\ genLog[i].args = <<Lower(EntGet(intent_data, "skill1")),
                                 Lower(EntGet(intent_data, "skill2"))>>

\* C10: for intent get_learning_path with a non-empty target_skill, a
\* learning path is requested from Text Generation for exactly that skill,
\* up to letter case, whatever its length or wording, and the turn returns
\* an artifact named learning_path.
C10_LearningPathForTarget ==
    /\ pc = "returned"
    /\ intent_data.intent = "get_learning_path"
    /\ Truthy(EntGet(intent_data, "target_skill"))
    /\ ~handled.ret.raised
    => /\ \E i \in 1..Len(genLog) :
              /\ genLog[i].cache_type = "learning_path"
              /\ genLog[i].args = <<Lower(EntGet(intent_data, "target_skill"))>>
       /\ HasArtifact("learning_path")

\* the jobs and the skills carried by the returned artifacts
ArtifactData(name) ==
    LET i == CHOOSE i \in 1..Len(result.artifacts) : result.artifacts[i].name = name
    IN  result.artifacts[i].parts[1].data
Returned(intent) ==
    pc = "returned" /\ trace # <<>> /\ intent_data.intent = intent

\* C11: for intent search_jobs the Job Store is queried with a filter built
\* from the job_query entity, or from the utterance when the entity is
\* absent, and limit 20: the job_search_results artifact holds at most 20
\* jobs and only jobs which that query selects.
C11_SearchUsesQuery ==
    Returned("search_jobs") /\ ~EntitiesRaise(intent_data) /\ ~handled.ret.raised
    => LET query == IF intent_data.emap["job_query"] = Absent THEN user_text
                    ELSE intent_data.emap["job_query"]
           selected == JobRepository_search_jobs(store.jobs,
                                                 JobSearchQuery(query, 20))
       IN  IF selected = <<>> THEN ~HasArtifact("job_search_results")
           ELSE /\ HasArtifact("job_search_results")
                /\ Len(ArtifactData("job_search_results")[2]) <= 20
                /\ [i \in 1..Len(selected) |-> selected[i].id]
                     = [i \in 1..Len(ArtifactData("job_search_results")[2]) |->
                          ArtifactData("job_search_results")[2][i].id]

C15_Identifiers ==
    pc = "returned"
    => /\ IF supplied.task_id # NoId THEN result.id = supplied.task_id
          ELSE result.id[1] = "uuid" /\ result.id[2] \in 1..uuidCount
       /\ IF supplied.context_id # NoId THEN result.contextId = supplied.context_id
          ELSE result.contextId[1] = "uuid" /\ result.contextId[2] \in 1..uuidCount
       /\ result.id # result.contextId
       /\ result.status.message.taskId = result.id
       /\ result.status.state \in {"completed", "failed"}

C15_Witness ==
    /\ pc = "returned"
    /\ supplied = [context_id |-> <<"given", 1>>, task_id |-> NoId]
    /\ result.status.state = "completed"
    /\ result.contextId = <<"given", 1>>
    /\ result.id = Uuid(1)

\* the call that started in this step: suspended, or ended at once
Started == IF Len(sleepers') > Len(sleepers) THEN sleepers'[Len(sleepers')] ELSE last'
Ended == last' # last

\* C16: the cache never holds an entry of a category whose TTL is 0; a call
\* made with use_cache = false leaves the cache as it is; every
\* chat_response call makes an external model call and is not answered
\* from the cache.
C16_NeverCached ==
    /\ [](\A k \in CacheKeys : CacheTtl(k[1]) = 0 => ~request_cache[k].present)
    /\ [][Ended /\ ~last'.use_cache => request_cache' = request_cache]_vars
    /\ [][Ended /\ last'.cache_type = "chat_response"
            => /\ last'.outcome \in {"response", "raised"}
               /\ Len(api_log') = Len(api_log) + 1
               /\ cache_hits' = cache_hits]_vars

C16_Witness ==
    /\ last.cache_type = "chat_response"
    /\ last.outcome = "response"
    /\ last.id = 2
    /\ Len(api_log) = 2
    /\ \A k \in CacheKeys : ~request_cache[k].present

\* C17: whatever the calls and their interleaving, no 60-second window holds
\* more than max_requests_per_minute (10) external model calls.
C17_RateBudget ==
    \A i \in 1..Len(api_log) :
        Cardinality({j \in 1..Len(api_log) :
                        api_log[i] <= api_log[j] /\ api_log[j] < api_log[i] + 60})
            <= 10

\* C18: a call that finds the budget used up is not rejected: every call
\* that started has been answered from the cache, has made its external
\* call or is suspended; a suspended call waits a non-negative time; and
\* every suspended call goes on to make its external call.
C18_BackpressureNotRejection ==
    /\ [](Len(api_log) + cache_hits + Len(sleepers) = ai_calls)
    /\ [](\A i \in 1..Len(sleepers) : sleepers[i].wake >= sleepers[i].read)
    /\ \A n \in 1..MaxAICalls :
           (\E i \in 1..Len(sleepers) : sleepers[i].id = n)
               ~> (last.id = n /\ last.outcome \in {"response", "raised"}
                   /\ api_log # <<>> /\ api_log[Len(api_log)] >= last.wake)

C18_Witness ==
    /\ last.id = 11
    /\ last.outcome = "response"
    /\ last.wake > last.read
    /\ api_log[Len(api_log)] = last.wake

\* C19: when the cache holds an entry for a call's category and prompt, the
\* category's TTL is positive, caching is enabled and the entry's age is
\* below the TTL, the call returns the stored response, makes no external
\* call, uses no rate-limit budget, leaves total_requests as it is and adds
\* exactly one to cache_hits.
C19_CacheHit ==
    [][LET c == Started
           k == <<c.cache_type, Md5(c.prompt)>>
       IN  /\ ai_calls' = ai_calls + 1
           /\ c.use_cache
           /\ cache_ttls[c.cache_type] > 0
           /\ request_cache[k].present
           /\ now - request_cache[k].time < cache_ttls[c.cache_type]
           => /\ last' = c
              /\ c.outcome = "hit"
              /\ c.response = request_cache[k].response
              /\ api_log' = api_log
              /\ request_times' = request_times
              /\ total_requests' = total_requests
              /\ cache_hits' = cache_hits + 1
              /\ request_cache' = request_cache]_vars

C19_Witness ==
    /\ last.outcome = "hit"
    /\ last.id = 2
    /\ last.response = 1
    /\ now = 59
    /\ cache_hits = 1
    /\ total_requests = 1

\* the envelope of spec section 6: jsonrpc "2.0" with id, method and params
MalformedEnvelope(b) ==
    /\ b.json = "object"
    /\ \/ "jsonrpc" \notin b.keys \/ b.jsonrpc # "2.0"
       \/ ~(EnvelopeKeys \subseteq b.keys)

\* C20: a request whose envelope is malformed (jsonrpc not "2.0", or id,
\* method or params missing) is answered with the JSON-RPC error -32600, and
\* no process_messages call, direct or in the background, is made for it.
C20_MalformedEnvelopeRejected ==
    /\ [](ep_pc = "responded" /\ MalformedEnvelope(body)
             => http_response.kind = "error" /\ http_response.code = -32600)
    /\ [][served' = served + 1 /\ MalformedEnvelope(body')
             => /\ ep_pc' = "responded"
                /\ agent_calls' = agent_calls
                /\ background' = background]_vars

\* a request with a valid envelope that the endpoint handles itself: it is
\* not handed to a background task
ValidEnvelope(b) ==
    b.json = "object" /\ EnvelopeKeys \subseteq b.keys /\ b.jsonrpc = "2.0"
BlockingMode(b) ==
    /\ ValidEnvelope(b)
    /\ b.method \in {"message/send", "execute"}
    /\ AgentArgs(b).is_blocking \/ AgentArgs(b).push_config.keys = {}

\* C21: every blocking request with a valid envelope and method
\* message/send or execute is answered with a JSON-RPC object that has the
\* request's id and carries result or error; never with an empty response.
C21_BlockingAlwaysAnswered ==
    ep_pc = "responded" /\ BlockingMode(body)
        => /\ http_response.kind \in {"result", "error"}
           /\ http_response.id = body.id

\* the handling of request b raises somewhere inside a2a_endpoint: in
\* request.json(), in body.get, in JSONRPCRequest(**body), in msg.parts, or
\* in the process_messages call the endpoint awaits
EndpointRaises(b) ==
    \/ b.json \in {"unparseable", "array"}
    \/ /\ ValidEnvelope(b)
       /\ b.method = "message/send" /\ b.params.message.messageId = NoId
    \/ /\ b.json = "object" /\ {"jsonrpc", "id"} \subseteq b.keys /\ b.jsonrpc = "2.0"
       /\ ~JSONRPCRequest(b)
    \/ /\ BlockingMode(b)
       /\ b.method = "execute"
       /\ \A outcome \in AgentOutcomes :
             freelance_agent_process_messages(AgentArgs(b), outcome, 1).raised

\* C22: every exception raised while the endpoint handles a request is
\* answered with the JSON-RPC error -32603 carrying the request's id (null
\* when the id is unknown); the handler itself never raises.
C22_ExceptionsBecomeInternalError ==
    ep_pc = "responded" /\ EndpointRaises(body)
        => /\ http_response.kind = "error"
           /\ http_response.code = -32603
           /\ http_response.id = IF body.json = "object" /\ "id" \in body.keys THEN body.id ELSE NoId

\* the callbacks that the service has made for the n-th request
CallbacksFor(n) ==
    {j \in 1..Len(callbacks) : callbacks[j].json.id = <<"request", n>>}
Acknowledged(n) ==
    http_response.kind = "processing" /\ http_response.id = <<"request", n>>

\* C23: every request acknowledged with "processing" is eventually followed
\* by exactly one outbound callback, which delivers a JSON-RPC response with
\* the request's id and the task result.
C23_AcknowledgedIsDelivered ==
    \A n \in 1..MaxRequests :
        /\ [](Cardinality(CallbacksFor(n)) <= 1)
        /\ Acknowledged(n)
              ~> \E j \in CallbacksFor(n) :
                    /\ callbacks[j].outcome = "sent"
                    /\ callbacks[j].json.kind = "result"
                    /\ callbacks[j].json.result.status.state \in {"completed", "failed"}

\* C24: in non-blocking mode the "processing" acknowledgment, with the
\* request's id, is produced in the step that makes the background task,
\* before any process_messages call for that request; and no later step of
\* the task (agent outcome, callback outcome) changes what the HTTP caller
\* was given.
C24_AcknowledgedBeforeProcessing ==
    [][/\ Len(background') > Len(background)
          => /\ http_response' = Response(200, "processing", body'.id, 0, NoResult)
             /\ ep_pc' = "responded"
             /\ agent_calls' = agent_calls
             /\ background'[Len(background')].stage = "created"
       /\ \A i \in 1..Len(background) :
             background'[i] # background[i]
                => /\ http_response' = http_response
                   /\ ep_pc' = ep_pc
                   /\ body' = body
       /\ \A j \in 1..Len(agent_calls') :
             agent_calls'[j].by = "background"
                => \E i \in 1..Len(background) :
                      /\ background[i].args.request_id = agent_calls'[j].request_id
                      /\ j > Len(agent_calls) => background[i].stage = "created"]_vars

\* a task whose POST raised, and one whose agent run failed, while the
\* caller of that request still holds the acknowledgment
C24_Witness ==
    /\ http_response.kind = "processing"
    /\ \E i \in 1..Len(background) :
          /\ background[i].stage = "done"
          /\ background[i].args.request_id = http_response.id
    /\ \E j \in 1..Len(callbacks) :
          /\ callbacks[j].outcome = "raised"
          /\ callbacks[j].json.result.status.state = "failed"

\* the generation requests of the turn that failed, by category
FailedGeneration(cache_type) ==
    \E i \in 1..Len(genLog) : genLog[i].cache_type = cache_type /\ genLog[i].raised

\* C25: when the external model call fails, compare_skills,
\* generate_skill_learning_path, answer_question, summarize_jobs,
\* chat_response, analyze_job_description and generate_trend_insights hand
\* back their fallback value, and a compare_skills, get_learning_path or
\* answer_question turn in which the call failed ends completed, its message
\* and its artifact carrying the fallback text.
C25_GenerationFailureFallsBack ==
    /\ \A gen \in {g \in TextGenOutcomes : g.raised} :
          /\ compare_skills(S_python, S_react, gen)
                = <<"Unable to compare ">> \o S_python \o <<" and ">> \o S_react
                  \o <<" at this time.">>
          /\ generate_skill_learning_path(S_react, gen)
                = <<"Unable to generate learning path for ">> \o S_react
                  \o <<" at this time.">>
          /\ answer_question(gen)[1] = "I'm having trouble processing your question right now. Please try again or rephrase your question."
          /\ generate_trend_insights(gen) = <<"Unable to generate AI insights at this time.">>
          /\ AIServiceMethods(gen).summarize_jobs = <<"Summary unavailable at this time.">>
          /\ AIServiceMethods(gen).chat_response[1] = "I'm having trouble right now. Could you try rephrasing your question?"
          /\ AIServiceMethods(gen).analyze_job_description.job_category = <<"general">>
    /\ \A cache_type \in {"skill_comparison", "learning_path", "answer_question"} :
          pc = "returned" /\ FailedGeneration(cache_type)
             => /\ result.status.state = "completed"
                /\ HasArtifact(IF cache_type = "answer_question" THEN "ai_answer"
                               ELSE cache_type)
                /\ LET text == result.artifacts[1].parts[1].text
                   IN  /\ text # <<>>
                       /\ \/ text[1] \in {"Unable to compare ",
                                          "Unable to generate learning path for "}
                             /\ text[Len(text)] = " at this time."
                          \/ text = answer_question(GenRaise)
                       /\ Len(ResponseText) > Len(text)
                       /\ SubSeq(ResponseText, Len(ResponseText) - Len(text) + 1,
                                 Len(ResponseText)) = text

C25_Witness ==
    /\ pc = "returned"
    /\ result.status.state = "completed"
    /\ FailedGeneration("skill_comparison")
    /\ HasPiece(ResponseText, "Unable to compare ")

\* C26: when text generation fails during trend-insight generation, the
\* run_analysis turn still completes, the insight of the analysis is null or
\* empty, and the response shows no AI-insights section.
C26_FailedInsightIsEmpty ==
    pc = "returned" /\ FailedGeneration("trend_insights")
        => /\ result.status.state = "completed"
           /\ ArtifactData("analysis_result")[2].ai_insights \in {NoneVal, <<>>}
           /\ ~HasPiece(ResponseText, "**AI Insights:**\n\n")

\* C27: on shutdown every scraping task that was started has had cancel()
\* called and has been awaited by the time shutdown is over, whether the
\* task was still running or had already ended with an error; shutdown never
\* ends with an exception, and once begun it completes.
C27_ShutdownCancelsEveryTask ==
    /\ [](lifespan.pc # "raised")
    /\ [](lifespan.pc \in {"stopped", "raised"}
             => \A t \in {"rss", "api"} :
                   scrapers[t].state # "none"
                      => /\ scrapers[t].cancel_called
                         /\ scrapers[t].awaited
                         /\ scrapers[t].state \in {"cancelled", "failed"})
    /\ lifespan.pc \in {"await rss", "await api"} ~> lifespan.pc = "stopped"

\* calls a and b were in flight at the same time, b ending after a: a
\* started after b did, or a slept in the rate limiter until after b started
InFlightTogether(a, b) == a.id > b.id \/ a.wake > b.read

\* C28: of two generation calls with the same prompt and the same cacheable
\* category that are in flight at the same time, at most one makes the
\* external model call: when the first has stored its response, the other
\* ends as a cache hit without a model call
C28_ConcurrentCallsShareOneModelCall ==
    [][(/\ Ended
        /\ last.outcome = "response"
        /\ last.use_cache /\ last'.use_cache
        /\ CacheTtl(last.cache_type) > 0
        /\ _get_cache_key(last.prompt, last.cache_type)
              = _get_cache_key(last'.prompt, last'.cache_type)
        /\ InFlightTogether(last, last'))
          => /\ last'.outcome = "hit"
             /\ api_log' = api_log]_vars

\* C29: expiry is checked when the cache is read.  A call is answered from
\* the cache only by an entry of its key whose age is strictly below the
\* category's TTL; a call that may use the cache and finds the entry of its
\* key at an age of the TTL or more is not answered from it: it makes an
\* external model call, at once or after the rate limiter's sleep; the
\* success of a caching call's model call replaces the entry of its key by
\* the new response with the time of that call, its failure leaves the
\* cache as it is; and no call removes an entry.
C29_LazyExpiry ==
    /\ [][Ended /\ last'.outcome = "hit"
            => LET k == _get_cache_key(last'.prompt, last'.cache_type)
               IN  /\ request_cache[k].present
                   /\ now - request_cache[k].time < CacheTtl(last'.cache_type)
                   /\ last'.response = request_cache[k].response]_vars
    /\ [][LET c == Started
              k == _get_cache_key(c.prompt, c.cache_type)
          IN  /\ ai_calls' = ai_calls + 1
              /\ c.use_cache
              /\ request_cache[k].present
              /\ now - request_cache[k].time >= CacheTtl(c.cache_type)
              => /\ c.outcome # "hit"
                 /\ cache_hits' = cache_hits
                 /\ \/ /\ Len(sleepers') = Len(sleepers) + 1
                       /\ request_cache' = request_cache
                    \/ /\ api_log' = Append(api_log, now)
                       /\ c.outcome \in {"response", "raised"}]_vars
    /\ [][LET k == _get_cache_key(last'.prompt, last'.cache_type)
          IN  Ended /\ last'.use_cache /\ CacheTtl(last'.cache_type) > 0
                 => /\ last'.outcome = "response"
                       => request_cache' =
                            [request_cache EXCEPT
                                ![k] = Entry(TRUE, now, last'.response)]
                    /\ last'.outcome # "response"
                       => request_cache' = request_cache]_vars
    /\ [][\A k \in CacheKeys :
              request_cache[k].present => request_cache'[k].present]_vars

\* an entry stored at time 0 has reached the TTL of answer_question (1800):
\* the second call of its key called the model and replaced it
C29_Witness ==
    LET k == _get_cache_key(last.prompt, last.cache_type)
    IN  /\ now = cache_ttls["answer_question"]
        /\ last.id = 2
        /\ last.cache_type = "answer_question"
        /\ last.outcome = "response"
        /\ api_log = <<0, now>>
        /\ cache_hits = 0
        /\ request_cache[k] = Entry(TRUE, now, 2)
        /\ \A j \in CacheKeys \ {k} : ~request_cache[j].present

\* the artifacts the agent produced for a turn that ended in the given state
ProducedArtifacts(state) == (CHOOSE o \in AgentOutcomes : o.state = state).artifacts

\* C30: the artifacts an action produced reach the endpoint's caller as the
\* data payloads they were, every one of them: the result of a blocking
\* response and the result a callback delivers carry the artifacts the agent
\* produced, each part of kind data with its payload, so that the two modes
\* deliver the same artifacts for the same turn.
C30_ArtifactsReachTheCaller ==
    LET Delivered(res) ==
            /\ res.artifacts = ProducedArtifacts(res.status.state)
            /\ \A i \in 1..Len(res.artifacts) :
                  \A j \in 1..Len(res.artifacts[i].parts) :
                     res.artifacts[i].parts[j].kind = "data"
    IN  /\ http_response.kind = "result" => Delivered(http_response.result)
        /\ \A i \in 1..Len(callbacks) : Delivered(callbacks[i].json.result)

\* C31: a request with a valid envelope whose method is neither message/send
\* nor execute is answered with a JSON-RPC error carrying the request's id,
\* and no process_messages call is made for it.
C31_UnknownMethodRejected ==
    /\ ValidEnvelope(body)
    /\ body.method \notin {"message/send", "execute"}
    /\ ep_pc # "idle"
    => /\ ep_pc = "responded"
       /\ http_response.kind = "error"
       /\ http_response.id = body.id
       /\ \A j \in 1..Len(agent_calls) : agent_calls[j].request_id # body.id

\* C32: the utterance handed to classify_intent is the first text part of
\* the last message, trimmed and lower-cased, and the empty string when the
\* last message has no text part: it is the same whatever the earlier
\* messages of the list are; and no step of process_messages writes to the
\* agent's conversations store.
C32_UtteranceFromLastMessage ==
    /\ [](pc \in {"classify", "dispatch"}
             => LET m == messages[Len(messages)]
                IN  /\ m = MsgText => user_text = <<"f","i","n","d"," ","g","o">>
                    /\ m = MsgData => user_text = <<>>
                    /\ m # MsgNoneText)
    /\ [](pc = "dispatch" => genLog[1].args = <<user_text>>)
    /\ [][conversations' = conversations]_vars

\* a two-message list whose earlier message has no text part has had the
\* text of its last message classified
C32_Witness ==
    /\ pc = "dispatch"
    /\ messages = <<MsgData, MsgText>>
    /\ user_text = <<"f","i","n","d"," ","g","o">>
    /\ trace = <<"classify_intent">>

\* what the last health_check met
QueriesSucceeded == health.total_jobs[1] = "count" /\ health.jobs_24h[1] = "count"
HealthChecked == health.response.status # "none"

\* C33 as stated: health_check never raises; when a store query fails the
\* response reports database.connected = false and both counts as -1; and
\* database.connected is true exactly when both count queries succeeded.
C33_HealthCheckDegrades ==
    HealthChecked
        => /\ ~health.raised
           /\ ~QueriesSucceeded
                 => health.response.database =
                       [connected |-> FALSE, total_jobs |-> -1, jobs_last_24h |-> -1]
           /\ health.response.database.connected <=> QueriesSucceeded

\* C33 amended: health_check never raises; when a store query or the
\* session's commit fails the response reports database.connected = false
\* and both counts as -1; database.connected is true exactly when both count
\* queries and the commit succeeded, and then the counts are the queries'.
C33_HealthCheckDegradesOnAnyFailure ==
    HealthChecked
        => /\ ~health.raised
           /\ ~(QueriesSucceeded /\ health.commit = "ok")
                 => health.response.database =
                       [connected |-> FALSE, total_jobs |-> -1, jobs_last_24h |-> -1]
           /\ QueriesSucceeded /\ health.commit = "ok"
                 => health.response.database =
                       [connected |-> TRUE, total_jobs |-> health.total_jobs[2],
                        jobs_last_24h |-> health.jobs_24h[2]]

\* both queries returned their counts and the commit then failed
C33_Witness ==
    /\ QueriesSucceeded
    /\ health.commit = "raises"
    /\ ~health.response.database.connected
    /\ health.response.database.total_jobs = -1
    /\ sessions[Len(sessions)] = <<"commit raised", "rollback", "close">>

\* the number of events of a session's record that are among evs
Times(log, evs) == Cardinality({i \in 1..Len(log) : log[i] \in evs})

\* C39: get_db_context closes the session on every exit path, once and
\* last; when the body raises the session is rolled back and no commit is
\* attempted, and the exception reaches the caller; when the body completes
\* commit is attempted exactly once; a commit that fails is followed by a
\* rollback and its exception reaches the caller.
C39_SessionAlwaysClosed ==
    /\ \A i \in 1..Len(sessions) :
          LET log == sessions[i]
          IN  /\ log # <<>> /\ log[Len(log)] = "close"
              /\ Times(log, {"close"}) = 1
              /\ Times(log, {"commit", "commit raised"}) <= 1
              /\ Times(log, {"commit"}) = 1 => Times(log, {"rollback"}) = 0
              /\ Times(log, {"commit"}) = 0 => Times(log, {"rollback"}) = 1
              /\ \A j \in 1..Len(log) :
                    log[j] = "commit raised" => log[j + 1] = "rollback"
    /\ HealthChecked =>
          LET log == sessions[Len(sessions)]
              propagated == health.response.database.total_jobs = -1
          IN  /\ ~QueriesSucceeded
                    => /\ Times(log, {"commit", "commit raised"}) = 0
                       /\ Times(log, {"rollback"}) = 1
                       /\ propagated
              /\ QueriesSucceeded
                    => /\ Times(log, {"commit", "commit raised"}) = 1
                       /\ health.commit = "raises"
                             <=> Times(log, {"commit raised"}) = 1
                       /\ propagated <=> health.commit = "raises"

\* three sessions, one per exit path: the body raised, the commit failed,
\* all went well
C39_Witness ==
    sessions = <<<<"rollback", "close">>,
                 <<"commit raised", "rollback", "close">>,
                 <<"commit", "close">>>>

\* C34: process_messages never raises: every call, whatever the message
\* list, ends with a task result, an error being turned into a failed one.
C34_ProcessMessagesNeverRaises ==
    /\ pc # "raised"
    /\ pc = "returned" => result # NoResult /\ result.status.state \in {"completed", "failed"}

\* request b gets as far as the choice between the two modes
ReachesDispatch(b) ==
    /\ ValidEnvelope(b)
    /\ b.method = "message/send" => b.params.message.messageId # NoId

\* message/send with configuration.blocking false and a pushNotificationConfig
\* member in the configuration
AsksForBackground(b) ==
    /\ b.method = "message/send"
    /\ ~b.params.configuration.none
    /\ {"blocking", "pushNotificationConfig"} \subseteq b.params.configuration.keys
    /\ ~b.params.configuration.blocking

\* the request just received is left to a background task; otherwise the
\* endpoint awaits process_messages itself and has no response before it ends
ModeOf(b, wanted) ==
    IF wanted
    THEN /\ background' = Append(background, [args |-> AgentArgs(b),
                                              stage |-> "created", call |-> 0])
         /\ agent_calls' = agent_calls
         /\ http_response'.kind = "processing"
    ELSE /\ background' = background
         /\ agent_calls' = Append(agent_calls, [request_id |-> b.id, by |-> "endpoint"])
         /\ ep_pc' = "awaiting"
         /\ http_response' = NoResponse

\* C35 as stated: a request is processed in the background if and only if
\* its method is message/send, configuration.blocking is false and the
\* configuration contains pushNotificationConfig; in every other case
\* process_messages finishes before the HTTP response is produced.
C35_BackgroundIffPushAndNonBlocking ==
    [][served' = served + 1 /\ ReachesDispatch(body')
          => ModeOf(body', AsksForBackground(body'))]_vars

\* C35 amended: ... and the configuration contains a pushNotificationConfig
\* that is not empty; with an empty one the request is processed before the
\* response, like every other case.
C35_BackgroundIffNonEmptyPush ==
    [][served' = served + 1 /\ ReachesDispatch(body')
          => ModeOf(body',
                    /\ AsksForBackground(body')
                    /\ body'.params.configuration.pushNotificationConfig.keys # {})]_vars

\* a message/send with blocking false and an empty pushNotificationConfig
\* has been answered with its result
C35_Witness ==
    /\ AsksForBackground(body)
    /\ body.params.configuration.pushNotificationConfig.keys = {}
    /\ ep_pc = "responded"
    /\ http_response.kind = "result"
    /\ background = <<>>

\* C36: when the external model call of a _cached_generate call raises, the
\* call ends with that exception, the cache is left as it was (nothing is
\* stored, replaced or removed), and the attempt is counted: total_requests
\* grows by one, the model call is made, and the rate-limit record ends
\* with the time the call read.
C36_FailedCallLeavesCache ==
    [][Ended /\ last'.outcome = "raised"
          => /\ request_cache' = request_cache
             /\ total_requests' = total_requests + 1
             /\ cache_hits' = cache_hits
             /\ api_log' = Append(api_log, now)
             /\ request_times' # <<>>
             /\ request_times'[Len(request_times')] = last'.read]_vars

\* the entry a call stored at time 0 has expired; the next call of its key
\* failed in the model call, and the old entry is still there
C36_Witness ==
    LET k == _get_cache_key(last.prompt, last.cache_type)
    IN  /\ last.outcome = "raised"
        /\ last.use_cache
        /\ last.id = 2
        /\ now = 1800
        /\ request_cache[k] = Entry(TRUE, 0, 1)
        /\ total_requests = 2
        /\ request_times = <<1800>>

\* C37: in every reachable state of an AIService cache_hits is at most
\* total_requests, so that the cache_hit_rate of get_stats lies between 0%
\* and 100% (0 and 1000 tenths of a percent); neither counter ever decreases.
C37_HitRateWithinBounds ==
    /\ [](cache_hits <= total_requests)
    /\ [](get_stats.cache_hit_rate \in 0..1000)
    /\ [][cache_hits' >= cache_hits /\ total_requests' >= total_requests]_vars

\* C40: clear_cache(T) removes the entries of category T, all of them and
\* no other: every entry of another category stays as it was; clear_cache
\* without a category leaves the cache empty; and neither changes
\* total_requests, cache_hits or the rate-limit record.
C40_ClearCacheFrame ==
    [][last'.outcome = "cleared"
          => /\ \A k \in CacheKeys :
                   IF last'.cache_type \in {"", k[1]}
                   THEN ~request_cache'[k].present
                   ELSE request_cache'[k] = request_cache[k]
             /\ last'.cache_type = "" => get_stats'.cache_size = 0
             /\ total_requests' = total_requests
             /\ cache_hits' = cache_hits
             /\ request_times' = request_times]_vars

\* entries of both categories were stored, and clear_cache("summarize_jobs")
\* has left the one of skill_comparison
C40_Witness ==
    /\ last.outcome = "cleared"
    /\ last.cache_type = "summarize_jobs"
    /\ total_requests = 3
    /\ cache_hits = 0
    /\ get_stats.cache_size = 1
    /\ request_cache[_get_cache_key("prompt a", "skill_comparison")].present
    /\ \E i \in {1, 2, 3} :
          request_cache[_get_cache_key("prompt a", "skill_comparison")].response = i

\* C38: in a blocking response whose first input message has a messageId,
\* result.id and result.status.message.messageId are that messageId, in
\* place of the task id (a taskId given with execute is not result.id),
\* while result.contextId and the taskId of the response message are the
\* agent's: the given task id, or the one the agent drew.
C38_MessageIdReplacesResultId ==
    http_response.kind = "result"
        => LET args == AgentArgs(body)
               k == CHOOSE i \in 1..Len(agent_calls) :
                       /\ agent_calls[i].by = "endpoint"
                       /\ \A j \in (i + 1)..Len(agent_calls) :
                             agent_calls[j].by # "endpoint"
               incoming == args.messages[1].messageId
               task == IF args.task_id = NoId THEN Uuid(3 * k - 1) ELSE args.task_id
               res == http_response.result
           IN  /\ incoming \notin {NoId, EmptyId}
               /\ res.id = incoming
               /\ res.status.message.messageId = incoming
               /\ res.id # task
               /\ res.status.message.taskId = task
               /\ res.contextId = Uuid(3 * k - 2)

\* an execute request that gave a taskId has been answered
C38_Witness ==
    /\ http_response.kind = "result"
    /\ body.method = "execute"
    /\ body.params.taskId = <<"given", 2>>
    /\ http_response.result.id = <<"message", 1>>
    /\ http_response.result.status.message.taskId = <<"given", 2>>

====
